---------------------------- MODULE Spec2Model ----------------------------
(***************************************************************************)
(* A model of the investment-notifier signal engine: the indicator library *)
(* (lib/signals.py), the monitor classifiers (investor_alert.py), the      *)
(* discovery classifiers (discover_symbols.py) and the two orchestration   *)
(* loops that call them.                                                   *)
(*                                                                         *)
(* Numbers.  Prices are whole numbers of currency units.  Every ratio the  *)
(* code computes in floating point (a moving average, a drawdown, a slope, *)
(* a score) is kept as an exact fraction [n, d] with d > 0, and compared   *)
(* by cross-multiplication; thresholds such as 0.10 are fractions over     *)
(* Scale (basis points).  The value None is the fraction with d = 0.       *)
(*                                                                         *)
(* Series.  A pandas Series of daily values is kept run-length encoded: a  *)
(* sequence of runs [v |-> value, n |-> days], oldest first.  Position i   *)
(* of the series (1 = oldest, SLen = latest) is the i-th day of the        *)
(* expansion; all window operators below are over that expansion.          *)
(***************************************************************************)
EXTENDS Integers, Sequences, FiniteSets, TLC

--------------------------------------------------------------------------
(* Exact fractions *)

RECURSIVE GCD(_, _)
GCD(a, b) == IF b = 0 THEN a ELSE GCD(b, a % b)

Abs(x) == IF x < 0 THEN -x ELSE x

Rat(n, d) == [n |-> n, d |-> d]

None == Rat(0, 0)

IsNone(x) == x.d = 0

\* The same fraction in lowest terms.
RNorm(x) ==
    LET g == GCD(Abs(x.n), x.d)
    IN  IF g = 0 THEN x ELSE Rat(x.n \div g, x.d \div g)

RLt(a, b) == a.n * b.d < b.n * a.d
RLe(a, b) == a.n * b.d <= b.n * a.d
RGe(a, b) == RLe(b, a)
RGt(a, b) == RLt(b, a)
REq(a, b) == a.n * b.d = b.n * a.d

RAdd(a, b) ==
    LET x == RNorm(a)
        y == RNorm(b)
        g == GCD(x.d, y.d)
    IN  RNorm(Rat(x.n * (y.d \div g) + y.n * (x.d \div g), (x.d \div g) * y.d))

RNeg(a) == Rat(-a.n, a.d)
RSub(a, b) == RAdd(a, RNeg(b))

RMul(a, b) ==
    LET x == RNorm(a)
        y == RNorm(b)
        p == RNorm(Rat(x.n, y.d))
        q == RNorm(Rat(y.n, x.d))
    IN  Rat(p.n * q.n, p.d * q.d)

RMin(a, b) == IF RLe(a, b) THEN a ELSE b

Int2Rat(k) == Rat(k, 1)

\* Thresholds are written in basis points: 0.10 is Bp(1000).
Scale == 100 * 100
Bp(x) == RNorm(Rat(x, Scale))

--------------------------------------------------------------------------
(* Series *)

Min2(a, b) == IF a < b THEN a ELSE b
Max2(a, b) == IF a > b THEN a ELSE b

RECURSIVE SLen(_)
SLen(s) == IF s = <<>> THEN 0 ELSE Head(s).n + SLen(Tail(s))

\* Sum of the values at positions lo..hi of the series whose first run starts
\* at position start.
RECURSIVE SumFrom(_, _, _, _)
SumFrom(s, start, lo, hi) ==
    IF s = <<>> THEN 0
    ELSE LET last == start + Head(s).n - 1
             cnt  == Max2(0, Min2(hi, last) - Max2(lo, start) + 1)
         IN  Head(s).v * cnt + SumFrom(Tail(s), last + 1, lo, hi)

SumRange(s, lo, hi) == SumFrom(s, 1, lo, hi)

\* Largest value at positions lo..hi; 0 when the range holds no position.
RECURSIVE MaxFrom(_, _, _, _)
MaxFrom(s, start, lo, hi) ==
    IF s = <<>> THEN 0
    ELSE LET last == start + Head(s).n - 1
             rest == MaxFrom(Tail(s), last + 1, lo, hi)
         IN  IF Min2(hi, last) >= Max2(lo, start)
             THEN Max2(Head(s).v, rest)
             ELSE rest

MaxRange(s, lo, hi) == MaxFrom(s, 1, lo, hi)

\* series.iloc[i-1]: the value at position i, 1 <= i <= SLen(s).
At(s, i) == SumRange(s, i, i)

\* series.iloc[-1]
Latest(s) == At(s, SLen(s))

--------------------------------------------------------------------------
(* lib/signals.py: the indicator library *)

\* compute_ma(series, window).iloc[i-1]: the rolling mean ending at position
\* i, NaN (None) until `window` observations are available.
compute_ma(series, window, i) ==
    IF window < 1 \/ i < window \/ i > SLen(series) THEN None
    ELSE Rat(SumRange(series, i - window + 1, i), window)

\* len(compute_ma(series, window).dropna())
ma_count(series, window) ==
    IF window < 1 THEN 0 ELSE Max2(0, SLen(series) - window + 1)

get_ma_value(series, window) ==
    IF ma_count(series, window) > 0
    THEN compute_ma(series, window, SLen(series))
    ELSE None

compute_ma_slope(series, ma_window, slope_window) ==
    IF ma_count(series, ma_window) < slope_window THEN Rat(0, 1)
    ELSE LET first == compute_ma(series, ma_window, SLen(series) - slope_window + 1)
             last  == compute_ma(series, ma_window, SLen(series))
         IN  IF first.n = 0 THEN Rat(0, 1)
             ELSE Rat(last.n - first.n, first.n)

\* A slip: only a negative high guarded, a high of zero divided by.
compute_drawdown_zero_high(current_price, high_price) ==
    IF high_price < 0 THEN Rat(0, 1)
    ELSE Rat(high_price - current_price, high_price)

compute_drawdown(current_price, high_price) ==
    IF high_price <= 0 THEN Rat(0, 1)
    ELSE Rat(high_price - current_price, high_price)

get_period_high(series, days) ==
    IF SLen(series) < 1 THEN 0
    ELSE MaxRange(series, SLen(series) - days + 1, SLen(series))

get_multi_timeframe_highs(high_series) ==
    [ high_1d |-> IF SLen(high_series) >= 1 THEN Latest(high_series) ELSE 0,
      high_1w |-> get_period_high(high_series, 5),
      high_1m |-> get_period_high(high_series, 21),
      high_3m |-> get_period_high(high_series, 63),
      high_6m |-> get_period_high(high_series, 126) ]

\* The thresholds t (of those in use) at which the double nearest to 1 - t
\* lies above 1 - double(t): for them pct_change, computed as y / x - 1,
\* of an exact decline of t compares greater than -t (100 -> 93 gives
\* -0.06999999999999995 against -0.07), for the others smaller
\* (100 -> 97 gives -0.030000000000000027 against -0.03).
RoundsAboveTie == { Bp(700), Bp(800), Bp(900), Bp(1000), Bp(2000) }

\* pct_change from x to y > -max_single_day_drop, as doubles compare it.
change_above(x, y, max_single_day_drop) ==
    LET change == Rat(y - x, x)
    IN  \/ RGt(change, RNeg(max_single_day_drop))
        \/ /\ REq(change, RNeg(max_single_day_drop))
           /\ \E t \in RoundsAboveTie : REq(t, max_single_day_drop)

\* min(pct_change over the trailing `days` values) > -max_single_day_drop.
check_stability(series, days, max_single_day_drop) ==
    IF SLen(series) < days THEN FALSE
    ELSE \A i \in (SLen(series) - days + 2) .. SLen(series) :
            change_above(At(series, i - 1), At(series, i), max_single_day_drop)

is_overheated(current_price, short_ma, max_multiple) ==
    IF short_ma.n <= 0 THEN FALSE
    ELSE RGt(Int2Rat(current_price), RMul(short_ma, max_multiple))

\* A slip: a price equal to the average counted as above it.
is_above_ma_or_equal(current_price, ma_value) ==
    ~IsNone(ma_value) /\ RGe(Int2Rat(current_price), ma_value)

is_above_ma(current_price, ma_value) ==
    IF IsNone(ma_value) \/ ma_value.n <= 0 THEN FALSE
    ELSE RGt(Int2Rat(current_price), ma_value)

is_ma_crossover_bearish(short_ma, long_ma) ==
    IF IsNone(short_ma) \/ IsNone(long_ma) THEN FALSE
    ELSE RLt(short_ma, long_ma)

SlopeThreshold == Bp(-100)

\* A slip: the slope gate lets every slope through.
is_ma_slope_rising_any(slope) == TRUE

is_ma_slope_rising(slope) == RGe(slope, SlopeThreshold)

\* A slip: a day at the average counts as below it.
days_below_ma_or_equal(close_series, ma_window, check_days) ==
    IF SLen(close_series) < ma_window THEN 0
    ELSE Cardinality(
           { i \in Max2(1, SLen(close_series) - check_days + 1) .. SLen(close_series) :
               /\ ~IsNone(compute_ma(close_series, ma_window, i))
               /\ RLe(Int2Rat(At(close_series, i)),
                      compute_ma(close_series, ma_window, i)) })

days_below_ma(close_series, ma_window, check_days) ==
    IF SLen(close_series) < ma_window THEN 0
    ELSE Cardinality(
           { i \in Max2(1, SLen(close_series) - check_days + 1) .. SLen(close_series) :
               /\ ~IsNone(compute_ma(close_series, ma_window, i))
               /\ RLt(Int2Rat(At(close_series, i)),
                      compute_ma(close_series, ma_window, i)) })

\* A slip: the symbol's own return, the benchmark's not subtracted.
compute_relative_strength_absolute(symbol_series, benchmark_series, window) ==
    IF SLen(symbol_series) < window \/ SLen(benchmark_series) < window
    THEN Rat(0, 1)
    ELSE LET s0 == At(symbol_series, SLen(symbol_series) - window + 1)
         IN  IF s0 = 0 THEN Rat(0, 1)
             ELSE Rat(Latest(symbol_series) - s0, s0)

compute_relative_strength(symbol_series, benchmark_series, window) ==
    IF SLen(symbol_series) < window \/ SLen(benchmark_series) < window
    THEN Rat(0, 1)
    ELSE LET s0 == At(symbol_series, SLen(symbol_series) - window + 1)
             s1 == Latest(symbol_series)
             b0 == At(benchmark_series, SLen(benchmark_series) - window + 1)
             b1 == Latest(benchmark_series)
         IN  IF s0 = 0 \/ b0 = 0 THEN Rat(0, 1)
             ELSE RSub(Rat(s1 - s0, s0), Rat(b1 - b0, b0))

\* A mapping's .get(key, default) and its [key]; a missing key under [key]
\* is a KeyError, which the callers below turn into an error result.
Has(m, key) == key \in DOMAIN m
Get(m, key, default) == IF Has(m, key) THEN m[key] ELSE default

SlopeCap == Bp(500)
DrawdownCap == Bp(1000)
DefaultWeight == Bp(2500)

\* A slip: the final min(score, 1.0) left out.
compute_discovery_score_unclamped(drawdown, slope, above, relative_strength, weights) ==
    LET c1 == IF above THEN Get(weights, "above_ma", DefaultWeight) ELSE Rat(0, 1)
        c2 == IF slope.n > 0
              THEN RMul(RMin(RMul(slope, Rat(SlopeCap.d, SlopeCap.n)), Rat(1, 1)),
                        Get(weights, "slope", DefaultWeight))
              ELSE Rat(0, 1)
        c3 == IF RLt(drawdown, DrawdownCap)
              THEN RMul(RSub(Rat(1, 1), RMul(drawdown, Rat(DrawdownCap.d, DrawdownCap.n))),
                        Get(weights, "drawdown", DefaultWeight))
              ELSE Rat(0, 1)
        c4 == IF relative_strength.n > 0
              THEN RMul(RMin(RMul(relative_strength, Rat(SlopeCap.d, SlopeCap.n)), Rat(1, 1)),
                        Get(weights, "relative_strength", DefaultWeight))
              ELSE Rat(0, 1)
    IN  RAdd(RAdd(c1, c2), RAdd(c3, c4))

\* A slip: the drawdown component credited in full whenever it is credited.
compute_discovery_score_flat_drawdown(drawdown, slope, above, relative_strength, weights) ==
    LET c1 == IF above THEN Get(weights, "above_ma", DefaultWeight) ELSE Rat(0, 1)
        c2 == IF slope.n > 0
              THEN RMul(RMin(RMul(slope, Rat(SlopeCap.d, SlopeCap.n)), Rat(1, 1)),
                        Get(weights, "slope", DefaultWeight))
              ELSE Rat(0, 1)
        c3 == IF RLt(drawdown, DrawdownCap)
              THEN Get(weights, "drawdown", DefaultWeight)
              ELSE Rat(0, 1)
        c4 == IF relative_strength.n > 0
              THEN RMul(RMin(RMul(relative_strength, Rat(SlopeCap.d, SlopeCap.n)), Rat(1, 1)),
                        Get(weights, "relative_strength", DefaultWeight))
              ELSE Rat(0, 1)
    IN  RMin(RAdd(RAdd(c1, c2), RAdd(c3, c4)), Rat(1, 1))

\* The four components of the score, as compute_discovery_score adds them.
above_ma_score(above, weights) ==
    IF above THEN Get(weights, "above_ma", DefaultWeight) ELSE Rat(0, 1)

slope_score(slope, weights) ==
    IF slope.n > 0
    THEN RMul(RMin(RMul(slope, Rat(SlopeCap.d, SlopeCap.n)), Rat(1, 1)),
              Get(weights, "slope", DefaultWeight))
    ELSE Rat(0, 1)

drawdown_score(drawdown, weights) ==
    IF RLt(drawdown, DrawdownCap)
    THEN RMul(RSub(Rat(1, 1), RMul(drawdown, Rat(DrawdownCap.d, DrawdownCap.n))),
              Get(weights, "drawdown", DefaultWeight))
    ELSE Rat(0, 1)

rs_score(relative_strength, weights) ==
    IF relative_strength.n > 0
    THEN RMul(RMin(RMul(relative_strength, Rat(SlopeCap.d, SlopeCap.n)), Rat(1, 1)),
              Get(weights, "relative_strength", DefaultWeight))
    ELSE Rat(0, 1)

compute_discovery_score(drawdown, slope, above, relative_strength, weights) ==
    LET c1 == above_ma_score(above, weights)
        c2 == slope_score(slope, weights)
        c3 == drawdown_score(drawdown, weights)
        c4 == rs_score(relative_strength, weights)
    IN  RMin(RAdd(RAdd(c1, c2), RAdd(c3, c4)), Rat(1, 1))

--------------------------------------------------------------------------
(* lib/market_data.py: a DataFrame is a sequence of runs [c, h, n]: n days *)
(* with Close c and High h.                                                *)

RECURSIVE Column(_, _)
Column(df, col) ==
    IF df = <<>> THEN <<>>
    ELSE <<[v |-> Head(df)[col], n |-> Head(df).n]>> \o Column(Tail(df), col)

\* len(df)
DfLen(df) == SLen(Column(df, "c"))

\* A missing quote (NaN) in a column.
NaN == -1

\* Series.dropna()
dropna(series) == SelectSeq(series, LAMBDA r : r.v # NaN)

get_close_series(df) == dropna(Column(df, "c"))

get_high_series(df) == dropna(Column(df, "h"))

--------------------------------------------------------------------------
(* lib/config.py: threshold extraction.  `rules` is the (possibly partial) *)
(* rule mapping of config.json, flattened to the keys the accessor reads.  *)

get_category_config(cfg, category) ==
    Get(Get(cfg, "categories", <<>>), category, <<>>)

get_category_symbols(cfg, category) ==
    Get(get_category_config(cfg, category), "symbols", <<>>)

get_category_rules(cfg, category, rule_type) ==
    Get(Get(get_category_config(cfg, category), "rules", <<>>), rule_type, <<>>)

get_exit_thresholds(rules) ==
    [ enabled                  |-> Get(rules, "enabled", TRUE),
      use_ma_crossover         |-> Get(rules, "use_ma_crossover", TRUE),
      short_ma                 |-> Get(rules, "short_ma", 50),
      long_ma                  |-> Get(rules, "long_ma", 100),
      drawdown_lookback_days   |-> Get(rules, "drawdown_lookback_days", 63),
      drawdown_exit_threshold  |-> Get(rules, "drawdown_exit_threshold", Bp(1000)),
      price_below_long_ma_days |-> Get(rules, "price_below_long_ma_days", 3) ]

get_entry_thresholds(rules) ==
    [ enabled             |-> Get(rules, "enabled", TRUE),
      price_above_long_ma |-> Get(rules, "price_above_long_ma", TRUE),
      long_ma             |-> Get(rules, "long_ma", 100),
      short_ma            |-> Get(rules, "short_ma", 50),
      long_ma_slope_days  |-> Get(rules, "long_ma_slope_days", 10),
      lookback_high_days  |-> Get(rules, "lookback_high_days", 42),
      min_pullback        |-> Get(rules, "min_pullback", Bp(500)),
      max_pullback        |-> Get(rules, "max_pullback", Bp(800)),
      stability_days      |-> Get(rules, "check_last_n_days", 5),
      max_single_day_drop |-> Get(rules, "max_single_day_drop", Bp(700)),
      overheat_enabled    |-> Get(rules, "overheat_enabled", TRUE),
      overheat_multiple   |-> Get(rules, "max_close_over_short_ma_multiple", Bp(11200)) ]

get_stress_opportunity_thresholds(rules) ==
    [ enabled                       |-> Get(rules, "enabled", TRUE),
      requires_stress_confirmation  |-> Get(rules, "requires_market_stress_confirmation", TRUE),
      stress_vixy_trending_up       |-> Get(rules, "stress_if_vixy_trending_up", TRUE),
      stress_kre_below_long_ma      |-> Get(rules, "stress_if_kre_below_long_ma", TRUE),
      stress_spy_drawdown_threshold |-> Get(rules, "stress_if_spy_drawdown_threshold", Bp(800)),
      dip_lookback_days             |-> Get(rules, "lookback_high_days", 126),
      min_drawdown                  |-> Get(rules, "min_drawdown", Bp(1500)),
      max_drawdown                  |-> Get(rules, "max_drawdown", Bp(3500)),
      prefer_above_long_ma          |-> Get(rules, "prefer_price_above_long_ma", TRUE),
      long_ma                       |-> Get(rules, "long_ma", 200) ]

--------------------------------------------------------------------------
(* investor_alert.py: the monitor classifiers.  A result is a record with  *)
(* a `type`: "None" (the function returned None), "Error" (it raised), or  *)
(* the alert type.  The formatted reason text is kept as its fixed part.   *)

NoResult == [type |-> "None"]

Raise(e) == [type |-> "Error", error |-> e]

Pct(x) == Rat(x.n * 100, x.d)

\* A slip: the drawdown compared with > instead of >=.
check_exit_risk_strict_drawdown(symbol, close_series, high_series, thresholds) ==
    IF ~Get(thresholds, "enabled", TRUE) THEN NoResult
    ELSE IF SLen(close_series) = 0 THEN Raise("IndexError")
    ELSE IF ~Has(thresholds, "short_ma") \/ ~Has(thresholds, "long_ma")
    THEN Raise("KeyError")
    ELSE
    LET current_price == Latest(close_series)
        short_ma    == get_ma_value(close_series, thresholds["short_ma"])
        long_ma     == get_ma_value(close_series, thresholds["long_ma"])
        lookback    == Get(thresholds, "drawdown_lookback_days", 63)
        threshold   == Get(thresholds, "drawdown_exit_threshold", Bp(1000))
        recent_high == get_period_high(high_series, lookback)
        drawdown    == compute_drawdown(current_price, recent_high)
        below_days  == Get(thresholds, "price_below_long_ma_days", 3)
        below_count == days_below_ma(close_series, thresholds["long_ma"], below_days)
    IN  IF IsNone(short_ma) \/ IsNone(long_ma) THEN NoResult
        ELSE IF /\ Get(thresholds, "use_ma_crossover", TRUE)
                /\ is_ma_crossover_bearish(short_ma, long_ma)
        THEN [ type |-> "EXIT_RISK", symbol |-> symbol, reason |-> "Trend weakening",
               price |-> current_price, dma_50 |-> short_ma, dma_100 |-> long_ma ]
        ELSE IF RGt(drawdown, threshold)
        THEN [ type |-> "EXIT_RISK", symbol |-> symbol, reason |-> "Drawdown",
               price |-> current_price, dma_50 |-> short_ma, dma_100 |-> long_ma,
               drawdown_pct |-> Pct(drawdown) ]
        ELSE IF below_days > 0 /\ below_count >= below_days
        THEN [ type |-> "EXIT_RISK", symbol |-> symbol, reason |-> "Price below long MA",
               price |-> current_price, dma_50 |-> short_ma, dma_100 |-> long_ma ]
        ELSE NoResult

check_exit_risk(symbol, close_series, high_series, thresholds) ==
    IF ~Get(thresholds, "enabled", TRUE) THEN NoResult
    ELSE IF SLen(close_series) = 0 THEN Raise("IndexError")
    ELSE IF ~Has(thresholds, "short_ma") \/ ~Has(thresholds, "long_ma")
    THEN Raise("KeyError")
    ELSE
    LET current_price == Latest(close_series)
        short_ma    == get_ma_value(close_series, thresholds["short_ma"])
        long_ma     == get_ma_value(close_series, thresholds["long_ma"])
        lookback    == Get(thresholds, "drawdown_lookback_days", 63)
        threshold   == Get(thresholds, "drawdown_exit_threshold", Bp(1000))
        recent_high == get_period_high(high_series, lookback)
        drawdown    == compute_drawdown(current_price, recent_high)
        below_days  == Get(thresholds, "price_below_long_ma_days", 3)
        below_count == days_below_ma(close_series, thresholds["long_ma"], below_days)
    IN  IF IsNone(short_ma) \/ IsNone(long_ma) THEN NoResult
        ELSE IF /\ Get(thresholds, "use_ma_crossover", TRUE)
                /\ is_ma_crossover_bearish(short_ma, long_ma)
        THEN [ type |-> "EXIT_RISK", symbol |-> symbol, reason |-> "Trend weakening",
               price |-> current_price, dma_50 |-> short_ma, dma_100 |-> long_ma ]
        ELSE IF RGe(drawdown, threshold)
        THEN [ type |-> "EXIT_RISK", symbol |-> symbol, reason |-> "Drawdown",
               price |-> current_price, dma_50 |-> short_ma, dma_100 |-> long_ma,
               drawdown_pct |-> Pct(drawdown) ]
        ELSE IF below_days > 0 /\ below_count >= below_days
        THEN [ type |-> "EXIT_RISK", symbol |-> symbol, reason |-> "Price below long MA",
               price |-> current_price, dma_50 |-> short_ma, dma_100 |-> long_ma ]
        ELSE NoResult

check_entry_opportunity(symbol, close_series, high_series, thresholds) ==
    IF ~Get(thresholds, "enabled", TRUE) THEN NoResult
    ELSE IF SLen(close_series) = 0 THEN Raise("IndexError")
    ELSE IF ~Has(thresholds, "long_ma") THEN Raise("KeyError")
    ELSE
    LET current_price  == Latest(close_series)
        long_ma        == get_ma_value(close_series, thresholds["long_ma"])
        short_ma       == get_ma_value(close_series, Get(thresholds, "short_ma", 50))
        slope_days     == Get(thresholds, "long_ma_slope_days", 10)
        slope          == compute_ma_slope(close_series, thresholds["long_ma"], slope_days)
        lookback       == Get(thresholds, "lookback_high_days", 42)
        min_pullback   == Get(thresholds, "min_pullback", Bp(500))
        max_pullback   == Get(thresholds, "max_pullback", Bp(800))
        recent_high    == get_period_high(high_series, lookback)
        pullback       == compute_drawdown(current_price, recent_high)
        overheat_mult  == Get(thresholds, "overheat_multiple", Bp(11200))
        stability_days == Get(thresholds, "stability_days", 5)
        max_drop       == Get(thresholds, "max_single_day_drop", Bp(700))
    IN  IF IsNone(long_ma) THEN NoResult
        ELSE IF /\ Get(thresholds, "price_above_long_ma", TRUE)
                /\ ~is_above_ma(current_price, long_ma)
        THEN NoResult
        ELSE IF ~is_ma_slope_rising(slope) THEN NoResult
        ELSE IF RLt(pullback, min_pullback) \/ RGe(pullback, max_pullback) THEN NoResult
        ELSE IF /\ Get(thresholds, "overheat_enabled", TRUE)
                /\ ~IsNone(short_ma) /\ short_ma.n # 0
                /\ is_overheated(current_price, short_ma, overheat_mult)
        THEN NoResult
        ELSE IF ~check_stability(close_series, stability_days, max_drop) THEN NoResult
        ELSE [ type |-> "ENTRY_OPPORTUNITY", symbol |-> symbol, reason |-> "Pullback",
               price |-> current_price, dma_50 |-> short_ma, dma_100 |-> long_ma,
               drawdown_pct |-> Pct(pullback) ]

\* `x and ...` on an Optional[float]: None and 0.0 are both false.
Truthy(x) == ~IsNone(x) /\ x.n # 0

\* A slip: the VIXY and KRE signals counted whatever their flags say.
stress_signals_flags_ignored(all_data, thresholds) ==
    LET spy  == /\ Has(all_data, "SPY")
                /\ SLen(get_close_series(all_data["SPY"])) > 0
                /\ RGe(compute_drawdown(Latest(get_close_series(all_data["SPY"])),
                                        get_period_high(get_high_series(all_data["SPY"]), 63)),
                       Get(thresholds, "stress_spy_drawdown_threshold", Bp(800)))
        vixy == /\ Has(all_data, "VIXY")
                /\ SLen(get_close_series(all_data["VIXY"])) >= 10
                /\ Truthy(get_ma_value(get_close_series(all_data["VIXY"]), 10))
                /\ RGt(Int2Rat(Latest(get_close_series(all_data["VIXY"]))),
                       get_ma_value(get_close_series(all_data["VIXY"]), 10))
        kre  == /\ Has(all_data, "KRE")
                /\ SLen(get_close_series(all_data["KRE"])) >= 100
                /\ Truthy(get_ma_value(get_close_series(all_data["KRE"]), 100))
                /\ RLt(Int2Rat(Latest(get_close_series(all_data["KRE"]))),
                       get_ma_value(get_close_series(all_data["KRE"]), 100))
    IN  (IF spy THEN 1 ELSE 0) + (IF vixy THEN 1 ELSE 0) + (IF kre THEN 1 ELSE 0)

\* The number of stress signals check_market_stress counts.
stress_signals(all_data, thresholds) ==
    LET spy  == IF Has(all_data, "SPY")
                THEN LET spy_close == get_close_series(all_data["SPY"])
                         spy_high  == get_high_series(all_data["SPY"])
                     IN  /\ SLen(spy_close) > 0
                         /\ RGe(compute_drawdown(Latest(spy_close),
                                                 get_period_high(spy_high, 63)),
                                Get(thresholds, "stress_spy_drawdown_threshold", Bp(800)))
                ELSE FALSE
        vixy == IF Get(thresholds, "stress_vixy_trending_up", TRUE) /\ Has(all_data, "VIXY")
                THEN LET vixy_close == get_close_series(all_data["VIXY"])
                         vixy_ma    == get_ma_value(vixy_close, 10)
                     IN  /\ SLen(vixy_close) >= 10
                         /\ Truthy(vixy_ma)
                         /\ RGt(Int2Rat(Latest(vixy_close)), vixy_ma)
                ELSE FALSE
        kre  == IF Get(thresholds, "stress_kre_below_long_ma", TRUE) /\ Has(all_data, "KRE")
                THEN LET kre_close == get_close_series(all_data["KRE"])
                         kre_ma    == get_ma_value(kre_close, 100)
                     IN  /\ SLen(kre_close) >= 100
                         /\ Truthy(kre_ma)
                         /\ RLt(Int2Rat(Latest(kre_close)), kre_ma)
                ELSE FALSE
    IN  (IF spy THEN 1 ELSE 0) + (IF vixy THEN 1 ELSE 0) + (IF kre THEN 1 ELSE 0)

\* A slip: one stress signal taken as confirmation.
check_market_stress_one_signal(all_data, thresholds) ==
    stress_signals(all_data, thresholds) >= 1

check_market_stress(all_data, thresholds) ==
    stress_signals(all_data, thresholds) >= 2

check_bank_opportunity(symbol, close_series, high_series, thresholds, market_stressed) ==
    IF ~Get(thresholds, "enabled", TRUE) THEN NoResult
    ELSE IF Get(thresholds, "requires_stress_confirmation", TRUE) /\ ~market_stressed
    THEN NoResult
    ELSE IF SLen(close_series) = 0 THEN Raise("IndexError")
    ELSE
    LET current_price == Latest(close_series)
        lookback      == Get(thresholds, "dip_lookback_days", 126)
        min_drawdown  == Get(thresholds, "min_drawdown", Bp(1500))
        max_drawdown  == Get(thresholds, "max_drawdown", Bp(3500))
        recent_high   == get_period_high(high_series, lookback)
        drawdown      == compute_drawdown(current_price, recent_high)
        ma_200        == get_ma_value(close_series, Get(thresholds, "long_ma", 200))
        above_200dma  == ~IsNone(ma_200) /\ RGt(Int2Rat(current_price), ma_200)
    IN  IF RLt(drawdown, min_drawdown) \/ RGt(drawdown, max_drawdown) THEN NoResult
        ELSE [ type |-> "BANK_OPPORTUNITY_WATCH", symbol |-> symbol,
               reason |-> "Drawdown during market stress", price |-> current_price,
               drawdown_pct |-> Pct(drawdown), above_200dma |-> above_200dma,
               dma_200 |-> ma_200 ]

\* A slip: the drawdown branch tested before the crossover branch.
metrics_status_drawdown_first(current_price, dma_50, dma_100, dma_slope, drawdown, drawdown_threshold, min_pullback, max_pullback) ==
    IF RGe(drawdown, drawdown_threshold) THEN <<"EXIT RISK", "Drawdown">>
    ELSE IF RLt(dma_50, dma_100) THEN <<"EXIT RISK", "50-DMA < 100-DMA">>
    ELSE IF /\ RGt(Int2Rat(current_price), dma_100)
            /\ RLe(min_pullback, drawdown) /\ RLt(drawdown, max_pullback)
            /\ RGe(dma_slope, SlopeThreshold)
    THEN <<"ENTRY OPP", "Pullback">>
    ELSE IF RGt(Int2Rat(current_price), dma_100) /\ RGt(dma_50, dma_100)
    THEN <<"HEALTHY", "Strong uptrend">>
    ELSE IF RGt(Int2Rat(current_price), dma_100) THEN <<"WATCH", "Above 100-DMA">>
    ELSE <<"WAIT", "Below 100-DMA">>

\* A slip: the WATCH branch placed before the HEALTHY one.
metrics_status_watch_first(current_price, dma_50, dma_100, dma_slope, drawdown, drawdown_threshold, min_pullback, max_pullback) ==
    IF RLt(dma_50, dma_100) THEN <<"EXIT RISK", "50-DMA < 100-DMA">>
    ELSE IF RGe(drawdown, drawdown_threshold) THEN <<"EXIT RISK", "Drawdown">>
    ELSE IF /\ RGt(Int2Rat(current_price), dma_100)
            /\ RLe(min_pullback, drawdown) /\ RLt(drawdown, max_pullback)
            /\ RGe(dma_slope, SlopeThreshold)
    THEN <<"ENTRY OPP", "Pullback">>
    ELSE IF RGt(Int2Rat(current_price), dma_100) THEN <<"WATCH", "Above 100-DMA">>
    ELSE IF RGt(Int2Rat(current_price), dma_100) /\ RGt(dma_50, dma_100)
    THEN <<"HEALTHY", "Strong uptrend">>
    ELSE <<"WAIT", "Below 100-DMA">>

\* The if/elif chain of get_symbol_metrics: <<status, status_reason>>.
metrics_status(current_price, dma_50, dma_100, dma_slope, drawdown, drawdown_threshold, min_pullback, max_pullback) ==
    IF RLt(dma_50, dma_100) THEN <<"EXIT RISK", "50-DMA < 100-DMA">>
    ELSE IF RGe(drawdown, drawdown_threshold) THEN <<"EXIT RISK", "Drawdown">>
    ELSE IF /\ RGt(Int2Rat(current_price), dma_100)
            /\ RLe(min_pullback, drawdown) /\ RLt(drawdown, max_pullback)
            /\ RGe(dma_slope, SlopeThreshold)
    THEN <<"ENTRY OPP", "Pullback">>
    ELSE IF RGt(Int2Rat(current_price), dma_100) /\ RGt(dma_50, dma_100)
    THEN <<"HEALTHY", "Strong uptrend">>
    ELSE IF RGt(Int2Rat(current_price), dma_100) THEN <<"WATCH", "Above 100-DMA">>
    ELSE <<"WAIT", "Below 100-DMA">>

get_symbol_metrics(symbol, close_series, high_series, exit_thresholds, entry_thresholds, now) ==
    IF SLen(close_series) < 100 THEN NoResult
    ELSE
    LET current_price == Latest(close_series)
        dma_50   == get_ma_value(close_series, 50)
        dma_100  == get_ma_value(close_series, 100)
        dma_slope == compute_ma_slope(close_series, 100, 10)
        highs    == get_multi_timeframe_highs(high_series)
        drawdown == compute_drawdown(current_price, highs.high_1d)
        st == metrics_status(current_price, dma_50, dma_100, dma_slope, drawdown,
                  Get(exit_thresholds, "drawdown_exit_threshold", Bp(1000)),
                  Get(entry_thresholds, "min_pullback", Bp(500)),
                  Get(entry_thresholds, "max_pullback", Bp(800)))
    IN  IF IsNone(dma_50) \/ IsNone(dma_100) THEN NoResult
        ELSE [ type |-> "METRICS", symbol |-> symbol, price |-> current_price,
               dma_50 |-> dma_50, dma_100 |-> dma_100,
               high_1d |-> highs.high_1d, high_1w |-> highs.high_1w,
               high_1m |-> highs.high_1m, high_3m |-> highs.high_3m,
               drop_1d |-> Pct(compute_drawdown(current_price, highs.high_1d)),
               drop_1w |-> Pct(compute_drawdown(current_price, highs.high_1w)),
               drop_1m |-> Pct(compute_drawdown(current_price, highs.high_1m)),
               drop_3m |-> Pct(compute_drawdown(current_price, highs.high_3m)),
               drawdown_pct |-> Pct(drawdown), dma_slope_pct |-> Pct(dma_slope),
               status |-> st[1], status_reason |-> st[2], date |-> now ]

--------------------------------------------------------------------------
(* discover_symbols.py: the discovery classifiers *)

get_global_filters(config) ==
    Get(config, "global_filters", [min_history_days |-> 120, min_price |-> 5])

get_discovery_scoring_thresholds ==
    [ min_score |-> Bp(5000),
      weights   |-> [ above_ma |-> Bp(2500), slope |-> Bp(2500),
                      drawdown |-> Bp(2500), relative_strength |-> Bp(2500) ] ]

get_emerging_rotation_config(rules) ==
    [ expansion_rules |->
        [ short_ma                    |-> Get(rules, "short_ma", 50),
          long_ma                     |-> Get(rules, "long_ma", 100),
          relative_strength_window    |-> 21,
          relative_strength_threshold |-> Bp(200),
          lookback_high_days          |-> Get(rules, "lookback_high_days", 21),
          max_drawdown                |-> Get(rules, "max_pullback", Bp(1500)),
          min_slope                   |-> Bp(50) ] ]

\* A slip: the history-length filter left out.
passes_global_filters_price_only(symbol, close_series, global_filters) ==
    IF SLen(close_series) = 0 THEN FALSE
    ELSE Latest(close_series) >= Get(global_filters, "min_price", 5)

passes_global_filters(symbol, close_series, global_filters) ==
    IF SLen(close_series) < Get(global_filters, "min_history_days", 126) THEN FALSE
    ELSE IF Latest(close_series) < Get(global_filters, "min_price", 5) THEN FALSE
    ELSE TRUE

\* The drop_* and high_* fields every discovery record carries.
timeframe_fields(current_price, high_series) ==
    LET highs == get_multi_timeframe_highs(high_series)
    IN  [ high_1d |-> highs.high_1d, high_1w |-> highs.high_1w,
          high_1m |-> highs.high_1m, high_3m |-> highs.high_3m,
          drop_1d |-> Pct(compute_drawdown(current_price, highs.high_1d)),
          drop_1w |-> Pct(compute_drawdown(current_price, highs.high_1w)),
          drop_1m |-> Pct(compute_drawdown(current_price, highs.high_1m)),
          drop_3m |-> Pct(compute_drawdown(current_price, highs.high_3m)) ]

evaluate_core_trend_candidate(symbol, close_series, high_series, thresholds, scoring) ==
    IF SLen(close_series) = 0 THEN Raise("IndexError")
    ELSE IF ~Has(thresholds, "long_ma") THEN Raise("KeyError")
    ELSE
    LET current_price == Latest(close_series)
        long_ma      == get_ma_value(close_series, thresholds["long_ma"])
        short_ma     == get_ma_value(close_series, Get(thresholds, "short_ma", 50))
        slope        == compute_ma_slope(close_series, thresholds["long_ma"],
                                         Get(thresholds, "long_ma_slope_days", 10))
        lookback     == Get(thresholds, "lookback_high_days", 42)
        recent_high  == get_period_high(high_series, lookback)
        drawdown     == compute_drawdown(current_price, recent_high)
        min_pullback == Get(thresholds, "min_pullback", Bp(500))
        max_pullback == Get(thresholds, "max_pullback", Bp(800))
        score        == compute_discovery_score(drawdown, slope, TRUE, Rat(0, 1),
                                                Get(scoring, "weights", <<>>))
        min_score    == Get(scoring, "min_score", Bp(5000))
        status       == IF RLe(min_pullback, drawdown) /\ RLt(drawdown, max_pullback)
                        THEN "pullback_zone" ELSE "watch"
    IN  IF IsNone(long_ma) THEN NoResult
        ELSE IF ~is_above_ma(current_price, long_ma) THEN NoResult
        ELSE IF RLt(slope, SlopeThreshold) THEN NoResult
        ELSE IF RLt(score, min_score) THEN NoResult
        ELSE [ type |-> "CANDIDATE", symbol |-> symbol, category |-> "core_trend",
               price |-> current_price, dma_100 |-> long_ma, dma_50 |-> short_ma,
               highs |-> timeframe_fields(current_price, high_series),
               drawdown_pct |-> Pct(drawdown), slope_pct |-> Pct(slope),
               score |-> score, status |-> status ]

evaluate_emerging_rotation_candidate(symbol, close_series, high_series, benchmark_series, basket_name, emerging_config, scoring) ==
    IF SLen(close_series) = 0 THEN Raise("IndexError")
    ELSE
    LET expansion_rules == Get(emerging_config, "expansion_rules", <<>>)
        current_price   == Latest(close_series)
        short_ma_period == Get(expansion_rules, "short_ma", 50)
        long_ma_period  == Get(expansion_rules, "long_ma", 100)
        short_ma        == get_ma_value(close_series, short_ma_period)
        long_ma         == get_ma_value(close_series, long_ma_period)
        window          == Get(expansion_rules, "relative_strength_window", 21)
        rs_threshold    == Get(expansion_rules, "relative_strength_threshold", Bp(200))
        rel_strength    == compute_relative_strength(close_series, benchmark_series, window)
        lookback        == Get(expansion_rules, "lookback_high_days", 21)
        recent_high     == get_period_high(high_series, lookback)
        drawdown        == compute_drawdown(current_price, recent_high)
        max_drawdown    == Get(expansion_rules, "max_drawdown", Bp(1500))
        slope           == compute_ma_slope(close_series, short_ma_period, 10)
        min_slope       == Get(expansion_rules, "min_slope", Bp(50))
        score           == compute_discovery_score(drawdown, slope, TRUE, rel_strength,
                                                   Get(scoring, "weights", <<>>))
        min_score       == Get(scoring, "min_score", Bp(5000))
    IN  IF IsNone(short_ma) \/ IsNone(long_ma) THEN NoResult
        ELSE IF ~is_above_ma(current_price, short_ma) THEN NoResult
        ELSE IF RLt(rel_strength, rs_threshold) THEN NoResult
        ELSE IF RGt(drawdown, max_drawdown) THEN NoResult
        ELSE IF RLt(slope, min_slope) THEN NoResult
        ELSE IF RLt(score, min_score) THEN NoResult
        ELSE [ type |-> "CANDIDATE", symbol |-> symbol, category |-> "emerging_rotation",
               basket |-> basket_name, price |-> current_price,
               dma_50 |-> short_ma, dma_100 |-> long_ma,
               highs |-> timeframe_fields(current_price, high_series),
               relative_strength_pct |-> Pct(rel_strength),
               drawdown_pct |-> Pct(drawdown), slope_pct |-> Pct(slope),
               score |-> score, status |-> "momentum" ]

evaluate_stress_opportunity_candidate(symbol, close_series, high_series, thresholds) ==
    IF SLen(close_series) = 0 THEN Raise("IndexError")
    ELSE
    LET current_price == Latest(close_series)
        long_ma      == get_ma_value(close_series, Get(thresholds, "long_ma", 200))
        lookback     == Get(thresholds, "dip_lookback_days", 126)
        recent_high  == get_period_high(high_series, lookback)
        drawdown     == compute_drawdown(current_price, recent_high)
        above_200dma == ~IsNone(long_ma) /\ RGt(Int2Rat(current_price), long_ma)
        min_dd       == Get(thresholds, "min_drawdown", Bp(1500))
        max_dd       == Get(thresholds, "max_drawdown", Bp(3500))
        status       == IF RLe(min_dd, drawdown) /\ RLe(drawdown, max_dd)
                        THEN "opportunity_zone" ELSE "watch"
    IN  [ type |-> "CANDIDATE", symbol |-> symbol, category |-> "stress_opportunities",
          price |-> current_price, dma_200 |-> long_ma,
          highs |-> timeframe_fields(current_price, high_series),
          drawdown_pct |-> Pct(drawdown), above_200dma |-> above_200dma,
          status |-> status ]

evaluate_defensive_candidate(symbol, close_series, high_series) ==
    IF SLen(close_series) = 0 THEN Raise("IndexError")
    ELSE
    LET current_price == Latest(close_series)
    IN  [ type |-> "CANDIDATE", symbol |-> symbol, category |-> "defensive_protection",
          price |-> current_price,
          dma_50 |-> get_ma_value(close_series, 50),
          dma_200 |-> get_ma_value(close_series, 200),
          highs |-> timeframe_fields(current_price, high_series),
          status |-> "available" ]

--------------------------------------------------------------------------
(* Inputs.  Price histories are built from at most MaxRuns runs; a run is  *)
(* RunLens days at one of Prices; the High of a day is its Close plus the  *)
(* history's wick.                                                         *)

MaxRuns == 3

Prices == {18, 34, 38, 40}

RunLens == {4, 10, 100}

Wicks == {0, 2}

RunSeqs == UNION { [1..m -> Prices \X RunLens] : m \in 0..MaxRuns }

MkFrame(rs, w) == [ i \in 1..Len(rs) |-> [c |-> rs[i][1], h |-> rs[i][1] + w, n |-> rs[i][2]] ]

Frames == { MkFrame(rs, w) : rs \in RunSeqs, w \in Wicks }

\* Rule mappings as config.json may give them; <<>> is the empty mapping,
\* under which every threshold takes its default.
ExitRules ==
    { <<>>,
      [enabled |-> FALSE],
      [use_ma_crossover |-> FALSE],
      [drawdown_exit_threshold |-> Bp(500)],
      [price_below_long_ma_days |-> 0] }

EntryRules ==
    { <<>>,
      [enabled |-> FALSE],
      [price_above_long_ma |-> FALSE],
      [overheat_enabled |-> FALSE],
      [max_single_day_drop |-> Bp(500)] }

StressRules ==
    { <<>>,
      [enabled |-> FALSE],
      [requires_market_stress_confirmation |-> FALSE] }

--------------------------------------------------------------------------
(* State *)

VARIABLES
    df,               \* the price history a classifier is applied to
    ret,              \* the classifier call made on it: its name, arguments and result
    config,           \* the loaded config.json, a nested mapping
    universe,         \* category -> symbols, the universe run_discovery iterates
    all_data,         \* symbol -> fetched DataFrame; a symbol without data is absent
    monitor_symbols,  \* the list analyze_monitored_symbols iterates
    pc,               \* where a run is: "idle", the loop it is in, or "done"
    todo,             \* the symbols the current loop has still to visit
    market_stressed,  \* check_market_stress(all_data, stress_thresholds)
    exit_risks,       \* the lists analyze_monitored_symbols returns
    entry_opps,
    bank_opps,
    all_metrics,
    recommendations,  \* the list run_discovery returns
    clock,            \* what datetime.now() shows, in minutes
    alerts_state,     \* state/alerts.json: alert key -> the timestamp last recorded
    sent,             \* the calls of record_alert_sent made: symbol, type and clock
    last_run_date,    \* run_daemon: the date of its last triggered run
    runs,             \* the clock at each call of send_daily_alert, oldest first
    rec_file,         \* recommended_symbols.json, <<>> while there is no such file
    last_notification,\* state/last_notification.json, <<>> while there is none
    outbox,           \* the texts Telegram accepted, oldest first
    stocks            \* stocks.json: the watchlist the web API serves

run_vars == <<config, universe, all_data, monitor_symbols, pc, todo, market_stressed, exit_risks, entry_opps, bank_opps, all_metrics, recommendations>>

svc_vars == <<clock, alerts_state, sent, last_run_date, runs>>

file_vars == <<rec_file, last_notification, outbox, stocks>>

vars == <<df, ret, run_vars, svc_vars, file_vars>>

Idle == [fn |-> "idle"]

\* No run in progress: the state of the single-call specifications.
NoRun ==
    /\ config = <<>>
    /\ universe = <<>>
    /\ all_data = <<>>
    /\ monitor_symbols = <<>>
    /\ pc = "idle"
    /\ todo = <<>>
    /\ market_stressed = FALSE
    /\ exit_risks = <<>>
    /\ entry_opps = <<>>
    /\ bank_opps = <<>>
    /\ all_metrics = <<>>
    /\ recommendations = <<>>

\* last_run_date = None
NoDate == -1

\* No alert recorded, no daemon started.
NoService ==
    /\ clock = 0
    /\ alerts_state = <<>>
    /\ sent = <<>>
    /\ last_run_date = NoDate
    /\ runs = <<>>

\* No file written, nothing sent.
NoFiles ==
    /\ rec_file = <<>>
    /\ last_notification = <<>>
    /\ outbox = <<>>
    /\ stocks = <<>>

--------------------------------------------------------------------------
(* The monitor classifiers, each applied once to a price history *)

InitMonitorFns ==
    /\ df \in Frames
    /\ ret = Idle
    /\ NoRun
    /\ NoService
    /\ NoFiles

CallCheckExitRisk ==
    /\ ret = Idle
    /\ \E rules \in ExitRules :
         LET thresholds == get_exit_thresholds(rules)
         IN  ret' = [ fn |-> "check_exit_risk", thresholds |-> thresholds,
                      val |-> check_exit_risk("AAA", get_close_series(df),
                                              get_high_series(df), thresholds) ]
    /\ UNCHANGED <<df, run_vars, svc_vars, file_vars>>

CallCheckEntryOpportunity ==
    /\ ret = Idle
    /\ \E rules \in EntryRules :
         LET thresholds == get_entry_thresholds(rules)
         IN  ret' = [ fn |-> "check_entry_opportunity", thresholds |-> thresholds,
                      val |-> check_entry_opportunity("AAA", get_close_series(df),
                                                      get_high_series(df), thresholds) ]
    /\ UNCHANGED <<df, run_vars, svc_vars, file_vars>>

CallGetSymbolMetrics ==
    /\ ret = Idle
    /\ \E xr \in {<<>>, [drawdown_exit_threshold |-> Bp(500)]} :
         LET exit_thresholds  == get_exit_thresholds(xr)
             entry_thresholds == get_entry_thresholds(<<>>)
         IN  ret' = [ fn |-> "get_symbol_metrics", exit_thresholds |-> exit_thresholds,
                      entry_thresholds |-> entry_thresholds,
                      val |-> get_symbol_metrics("AAA", get_close_series(df),
                                                 get_high_series(df), exit_thresholds,
                                                 entry_thresholds, 1) ]
    /\ UNCHANGED <<df, run_vars, svc_vars, file_vars>>

CallCheckBankOpportunity ==
    /\ ret = Idle
    /\ \E rules \in StressRules, stressed \in BOOLEAN :
         LET thresholds == get_stress_opportunity_thresholds(rules)
         IN  ret' = [ fn |-> "check_bank_opportunity", thresholds |-> thresholds,
                      market_stressed |-> stressed,
                      val |-> check_bank_opportunity("AAA", get_close_series(df),
                                                     get_high_series(df), thresholds,
                                                     stressed) ]
    /\ UNCHANGED <<df, run_vars, svc_vars, file_vars>>

NextMonitorFns ==
    \/ CallCheckExitRisk
    \/ CallCheckEntryOpportunity
    \/ CallGetSymbolMetrics
    \/ CallCheckBankOpportunity

SpecMonitorFns == InitMonitorFns /\ [][NextMonitorFns]_vars

--------------------------------------------------------------------------
(* Properties of the monitor classifiers *)

Close == get_close_series(df)
High == get_high_series(df)
Price == Latest(Close)

IsCall(fn) == ret.fn = fn

\* ---- check_exit_risk

ExitShortMa == get_ma_value(Close, ret.thresholds.short_ma)
ExitLongMa == get_ma_value(Close, ret.thresholds.long_ma)
ExitMasDefined == ~IsNone(ExitShortMa) /\ ~IsNone(ExitLongMa)

\* (a) short MA < long MA
ExitCondA == ExitMasDefined /\ RLt(ExitShortMa, ExitLongMa)

\* (b) drawdown from the lookback high >= drawdown_exit_threshold
ExitCondB ==
    RGe(compute_drawdown(Price, get_period_high(High, ret.thresholds.drawdown_lookback_days)),
        ret.thresholds.drawdown_exit_threshold)

\* (c) the close was below the long MA on every one of the trailing
\* price_below_long_ma_days days
ExitCondC ==
    \A i \in (SLen(Close) - ret.thresholds.price_below_long_ma_days + 1) .. SLen(Close) :
        /\ i >= 1
        /\ ~IsNone(compute_ma(Close, ret.thresholds.long_ma, i))
        /\ RLt(Int2Rat(At(Close, i)), compute_ma(Close, ret.thresholds.long_ma, i))

ExitReasonIs(a, b, c) ==
    ret.val.reason = IF a THEN "Trend weakening"
                     ELSE IF b THEN "Drawdown" ELSE "Price below long MA"

\* C2 as stated, read on the default thresholds and a non-empty history:
\* check_exit_risk returns an EXIT_RISK alert exactly when (a), (b) or (c)
\* holds, and the reason is that of the first that holds in the order a, b, c.
C2_AsStated ==
    (/\ IsCall("check_exit_risk")
     /\ ret.thresholds = get_exit_thresholds(<<>>)
     /\ SLen(Close) > 0) =>
        /\ (ret.val.type = "EXIT_RISK") <=> (ExitCondA \/ ExitCondB \/ ExitCondC)
        /\ (ret.val.type = "EXIT_RISK") => ExitReasonIs(ExitCondA, ExitCondB, ExitCondC)

\* C2 amended: for an enabled exit rule on a history long enough for both
\* moving averages, check_exit_risk returns an EXIT_RISK alert exactly when
\* (a) holds and use_ma_crossover is on, or (b) holds, or (c) holds and
\* price_below_long_ma_days > 0; the reason is that of the first of these in
\* the order a, b, c.  On a non-empty history too short for either moving
\* average it returns nothing.
C2_ExitRiskTriggers ==
    (IsCall("check_exit_risk") /\ ret.thresholds.enabled /\ SLen(Close) > 0) =>
        LET a == ret.thresholds.use_ma_crossover /\ ExitCondA
            b == ExitCondB
            c == ret.thresholds.price_below_long_ma_days > 0 /\ ExitCondC
        IN  IF ExitMasDefined
            THEN /\ (ret.val.type = "EXIT_RISK") <=> (a \/ b \/ c)
                 /\ (ret.val.type = "EXIT_RISK") => ExitReasonIs(a, b, c)
                 /\ (ret.val.type # "EXIT_RISK") => ret.val = NoResult
            ELSE ret.val = NoResult

\* An exit alert raised by (c) alone, under the default thresholds.
C2_Witness ==
    /\ IsCall("check_exit_risk")
    /\ ret.thresholds = get_exit_thresholds(<<>>)
    /\ ret.val.type = "EXIT_RISK"
    /\ ret.val.reason = "Price below long MA"
    /\ ~ExitCondA /\ ~ExitCondB /\ ExitCondC

\* ---- get_symbol_metrics

MetricsReported == IsCall("get_symbol_metrics") /\ ret.val.type = "METRICS"

Dma50 == get_ma_value(Close, 50)
Dma100 == get_ma_value(Close, 100)
Drawdown1d == compute_drawdown(Price, Latest(High))

MetricsCrossover == RLt(Dma50, Dma100)
MetricsDrawdown == RGe(Drawdown1d, ret.exit_thresholds.drawdown_exit_threshold)
MetricsEntry ==
    /\ RGt(Int2Rat(Price), Dma100)
    /\ RLe(ret.entry_thresholds.min_pullback, Drawdown1d)
    /\ RLt(Drawdown1d, ret.entry_thresholds.max_pullback)
    /\ RGe(compute_ma_slope(Close, 100, 10), Bp(-100))
MetricsHealthy == RGt(Int2Rat(Price), Dma100) /\ RGt(Dma50, Dma100)
MetricsAbove == RGt(Int2Rat(Price), Dma100)

\* C3: every reported symbol carries the one label that comes first in the
\* order EXIT RISK (crossover or drawdown >= exit threshold) > ENTRY OPP >
\* HEALTHY > WATCH > WAIT, and when crossover and drawdown both hold the
\* reason is the crossover's.
C3_StatusPriority ==
    MetricsReported =>
        /\ ret.val.status =
             IF MetricsCrossover \/ MetricsDrawdown THEN "EXIT RISK"
             ELSE IF MetricsEntry THEN "ENTRY OPP"
             ELSE IF MetricsHealthy THEN "HEALTHY"
             ELSE IF MetricsAbove THEN "WATCH"
             ELSE "WAIT"
        /\ ret.val.status \in {"EXIT RISK", "ENTRY OPP", "HEALTHY", "WATCH", "WAIT"}
        /\ MetricsCrossover => ret.val.status_reason = "50-DMA < 100-DMA"
        /\ (MetricsDrawdown /\ ~MetricsCrossover) => ret.val.status_reason = "Drawdown"

\* A reported symbol with both a bearish crossover and a drawdown over the
\* exit threshold.
C3_Witness ==
    /\ MetricsReported
    /\ MetricsCrossover /\ MetricsDrawdown
    /\ ret.val.status = "EXIT RISK"

\* ---- check_entry_opportunity

EntryLongMa == get_ma_value(Close, ret.thresholds.long_ma)
EntryShortMa == get_ma_value(Close, ret.thresholds.short_ma)
EntryPullback ==
    compute_drawdown(Price, get_period_high(High, ret.thresholds.lookback_high_days))

EntryAboveLongMa == ~IsNone(EntryLongMa) /\ RGt(Int2Rat(Price), EntryLongMa)
EntrySlopeOk ==
    RGe(compute_ma_slope(Close, ret.thresholds.long_ma, ret.thresholds.long_ma_slope_days),
        Bp(-100))
EntryPullbackInRange ==
    /\ RLe(ret.thresholds.min_pullback, EntryPullback)
    /\ RLt(EntryPullback, ret.thresholds.max_pullback)
EntryNotOverheated ==
    (ret.thresholds.overheat_enabled /\ ~IsNone(EntryShortMa)) =>
        RLe(Int2Rat(Price), RMul(EntryShortMa, ret.thresholds.overheat_multiple))
EntryStable ==
    /\ SLen(Close) >= ret.thresholds.stability_days
    /\ \A i \in (SLen(Close) - ret.thresholds.stability_days + 2) .. SLen(Close) :
          (At(Close, i) - At(Close, i - 1)) * ret.thresholds.max_single_day_drop.d
              > -ret.thresholds.max_single_day_drop.n * At(Close, i - 1)

EntryReturned == IsCall("check_entry_opportunity") /\ ret.val.type = "ENTRY_OPPORTUNITY"

\* C4 as stated: an ENTRY_OPPORTUNITY alert is returned only if the price is
\* above the long MA, the long-MA slope is >= -1%, the pullback lies in
\* [min_pullback, max_pullback), the price is not overheated (when that check
\* is enabled) and the stability check passes.
C4_AsStated ==
    EntryReturned =>
        /\ EntryAboveLongMa
        /\ EntrySlopeOk
        /\ EntryPullbackInRange
        /\ EntryNotOverheated
        /\ EntryStable

\* C4 amended: as stated, except that the price must be above the long MA
\* only when price_above_long_ma is enabled (the default); with it disabled
\* the long MA must still be defined.
C4_EntryRequiresAll ==
    EntryReturned =>
        /\ ret.thresholds.enabled
        /\ ~IsNone(EntryLongMa)
        /\ ret.thresholds.price_above_long_ma => EntryAboveLongMa
        /\ EntrySlopeOk
        /\ EntryPullbackInRange
        /\ EntryNotOverheated
        /\ EntryStable

\* An entry alert under the default thresholds.
C4_Witness ==
    /\ EntryReturned
    /\ ret.thresholds = get_entry_thresholds(<<>>)
    /\ EntryAboveLongMa /\ EntryPullbackInRange /\ EntryStable

--------------------------------------------------------------------------
(* The discovery classifiers, each applied once to a price history *)

\* Histories around a 6% pullback (Close 47 under a High of 50): a slope of
\* zero from too few moving-average values, a slope of zero from two equal
\* moving averages ten days apart, and a rising moving average.
PullbackFrames ==
    { <<[c |-> 40, h |-> 50, n |-> 100], [c |-> 47, h |-> 50, n |-> 4]>>,
      <<[c |-> 47, h |-> 50, n |-> 10], [c |-> 40, h |-> 43, n |-> 90],
        [c |-> 47, h |-> 50, n |-> 10]>>,
      <<[c |-> 20, h |-> 23, n |-> 100], [c |-> 47, h |-> 50, n |-> 10]>> }

CoreTrendRules ==
    { <<>>,
      [long_ma |-> 10],
      [max_pullback |-> Bp(1200)] }

Scorings ==
    { get_discovery_scoring_thresholds,
      <<>>,
      [min_score |-> Bp(3000)] }

EmergingRules ==
    { <<>>,
      [max_pullback |-> Bp(300)],
      [short_ma |-> 10] }

\* Close series of the benchmark: flat, rising at the end, too short.
Benchmarks ==
    { <<[v |-> 40, n |-> 104]>>,
      <<[v |-> 34, n |-> 100], [v |-> 40, n |-> 4]>>,
      <<[v |-> 40, n |-> 4]>> }

InitDiscoveryFns ==
    /\ df \in Frames \cup PullbackFrames
    /\ ret = Idle
    /\ NoRun
    /\ NoService
    /\ NoFiles

CallEvaluateCoreTrend ==
    /\ ret = Idle
    /\ \E rules \in CoreTrendRules, scoring \in Scorings :
         LET thresholds == get_entry_thresholds(rules)
         IN  ret' = [ fn |-> "evaluate_core_trend_candidate",
                      thresholds |-> thresholds, scoring |-> scoring,
                      val |-> evaluate_core_trend_candidate("AAA", get_close_series(df),
                                  get_high_series(df), thresholds, scoring) ]
    /\ UNCHANGED <<df, run_vars, svc_vars, file_vars>>

CallEvaluateEmergingRotation ==
    /\ ret = Idle
    /\ \E rules \in EmergingRules, benchmark_series \in Benchmarks :
         LET emerging_config == get_emerging_rotation_config(rules)
             scoring == get_discovery_scoring_thresholds
         IN  ret' = [ fn |-> "evaluate_emerging_rotation_candidate",
                      emerging_config |-> emerging_config, scoring |-> scoring,
                      benchmark_series |-> benchmark_series,
                      val |-> evaluate_emerging_rotation_candidate("AAA",
                                  get_close_series(df), get_high_series(df),
                                  benchmark_series, "ai", emerging_config, scoring) ]
    /\ UNCHANGED <<df, run_vars, svc_vars, file_vars>>

CallEvaluateStressOpportunity ==
    /\ ret = Idle
    /\ \E rules \in StressRules :
         LET thresholds == get_stress_opportunity_thresholds(rules)
         IN  ret' = [ fn |-> "evaluate_stress_opportunity_candidate",
                      thresholds |-> thresholds,
                      val |-> evaluate_stress_opportunity_candidate("JPM",
                                  get_close_series(df), get_high_series(df), thresholds) ]
    /\ UNCHANGED <<df, run_vars, svc_vars, file_vars>>

CallEvaluateDefensive ==
    /\ ret = Idle
    /\ ret' = [ fn |-> "evaluate_defensive_candidate",
                val |-> evaluate_defensive_candidate("TLT", get_close_series(df),
                                                     get_high_series(df)) ]
    /\ UNCHANGED <<df, run_vars, svc_vars, file_vars>>

NextDiscoveryFns ==
    \/ CallEvaluateCoreTrend
    \/ CallEvaluateEmergingRotation
    \/ CallEvaluateStressOpportunity
    \/ CallEvaluateDefensive

SpecDiscoveryFns == InitDiscoveryFns /\ [][NextDiscoveryFns]_vars

--------------------------------------------------------------------------
(* Properties of the Core Trend classifier *)

CoreLongMa == get_ma_value(Close, ret.thresholds.long_ma)
CoreSlope == compute_ma_slope(Close, ret.thresholds.long_ma, ret.thresholds.long_ma_slope_days)
CoreDrawdown == compute_drawdown(Price, get_period_high(High, ret.thresholds.lookback_high_days))
CoreScore ==
    compute_discovery_score(CoreDrawdown, CoreSlope, TRUE, Rat(0, 1),
                            Get(ret.scoring, "weights", <<>>))
CoreMinScore == Get(ret.scoring, "min_score", Bp(5000))
CoreInPullback ==
    /\ RLe(ret.thresholds.min_pullback, CoreDrawdown)
    /\ RLt(CoreDrawdown, ret.thresholds.max_pullback)
CoreReturned == IsCall("evaluate_core_trend_candidate") /\ ret.val.type = "CANDIDATE"

\* C5: evaluate_core_trend_candidate returns a record exactly when the long
\* MA is defined, the price is above it, the long-MA slope is >= -1% and the
\* composite score is >= min_score (no gate is on the drawdown itself); the
\* record's status is pullback_zone iff min_pullback <= drawdown <
\* max_pullback, and watch otherwise.
C5_CoreTrendGates ==
    IsCall("evaluate_core_trend_candidate") =>
        /\ (ret.val.type = "CANDIDATE") <=>
               /\ ~IsNone(CoreLongMa)
               /\ RGt(Int2Rat(Price), CoreLongMa)
               /\ RGe(CoreSlope, Bp(-100))
               /\ RGe(CoreScore, CoreMinScore)
        /\ (ret.val.type = "CANDIDATE") =>
               ret.val.status = IF CoreInPullback THEN "pullback_zone" ELSE "watch"

\* A record in the pullback zone under the default thresholds and scoring.
C5_Witness ==
    /\ CoreReturned
    /\ ret.thresholds = get_entry_thresholds(<<>>)
    /\ ret.scoring = get_discovery_scoring_thresholds
    /\ ret.val.status = "pullback_zone"
    /\ CoreInPullback

\* The case of C6: default thresholds and scoring, price above the
\* 100-period average, drawdown from the lookback high exactly 6%.
SixPercentPullback ==
    /\ IsCall("evaluate_core_trend_candidate")
    /\ ret.thresholds = get_entry_thresholds(<<>>)
    /\ ret.scoring = get_discovery_scoring_thresholds
    /\ ~IsNone(CoreLongMa)
    /\ RGt(Int2Rat(Price), CoreLongMa)
    /\ REq(CoreDrawdown, Bp(600))

\* C6 as stated: with the defaults, price above the 100-period average, a
\* slope of 0% and a drawdown of exactly 6%, the classifier returns a record
\* with status pullback_zone.
C6_AsStated ==
    (SixPercentPullback /\ REq(CoreSlope, Rat(0, 1))) =>
        /\ ret.val.type = "CANDIDATE"
        /\ ret.val.status = "pullback_zone"

\* C6: with the defaults, price above the 100-period average and a drawdown
\* of exactly 6%, a slope of 0% gives a score of 0.35 < min_score and the
\* classifier returns nothing; a record is returned only for a slope of at
\* least 3%, and then its status is pullback_zone.
C6_ZeroSlopePullbackRejected ==
    SixPercentPullback =>
        /\ REq(CoreSlope, Rat(0, 1)) =>
               /\ ret.val.type = "None"
               /\ REq(CoreScore, Bp(3500))
        /\ (ret.val.type = "CANDIDATE") =>
               /\ RGe(CoreSlope, Bp(300))
               /\ ret.val.status = "pullback_zone"

\* A 6% pullback on a flat 100-period average, with ten or more values of it.
C6_Witness ==
    /\ SixPercentPullback
    /\ REq(CoreSlope, Rat(0, 1))
    /\ ma_count(Close, 100) >= 10
    /\ ret.val.type = "None"

--------------------------------------------------------------------------
(* Properties of the Emerging Rotation classifier *)

ExpansionRules == ret.emerging_config.expansion_rules
EmergingShortMa == get_ma_value(Close, ExpansionRules.short_ma)
EmergingLongMa == get_ma_value(Close, ExpansionRules.long_ma)

\* The symbol's return over the window minus the benchmark's.
EmergingRelStrength ==
    LET w == ExpansionRules.relative_strength_window
        b == ret.benchmark_series
    IN  IF SLen(Close) < w \/ SLen(b) < w THEN Rat(0, 1)
        ELSE LET s0 == At(Close, SLen(Close) - w + 1)
                 b0 == At(b, SLen(b) - w + 1)
             IN  IF s0 = 0 \/ b0 = 0 THEN Rat(0, 1)
                 ELSE RSub(RSub(Rat(Price, s0), Rat(1, 1)),
                           RSub(Rat(Latest(b), b0), Rat(1, 1)))

EmergingDrawdown ==
    compute_drawdown(Price, get_period_high(High, ExpansionRules.lookback_high_days))
EmergingSlope == compute_ma_slope(Close, ExpansionRules.short_ma, 10)
EmergingScore ==
    compute_discovery_score(EmergingDrawdown, EmergingSlope, TRUE, EmergingRelStrength,
                            Get(ret.scoring, "weights", <<>>))
EmergingReturned ==
    IsCall("evaluate_emerging_rotation_candidate") /\ ret.val.type = "CANDIDATE"

\* C7: evaluate_emerging_rotation_candidate returns a record exactly when
\* the short and long MA are defined, the price is above the short MA, the
\* relative strength against the benchmark over the window is >= the RS
\* threshold, the drawdown from the lookback high is <= max_drawdown, the
\* short-MA slope is >= min_slope and the score is >= min_score; every
\* record has status momentum.
C7_EmergingRotationGates ==
    IsCall("evaluate_emerging_rotation_candidate") =>
        /\ (ret.val.type = "CANDIDATE") <=>
               /\ ~IsNone(EmergingShortMa) /\ ~IsNone(EmergingLongMa)
               /\ RGt(Int2Rat(Price), EmergingShortMa)
               /\ RGe(EmergingRelStrength, ExpansionRules.relative_strength_threshold)
               /\ RLe(EmergingDrawdown, ExpansionRules.max_drawdown)
               /\ RGe(EmergingSlope, ExpansionRules.min_slope)
               /\ RGe(EmergingScore, Get(ret.scoring, "min_score", Bp(5000)))
        /\ (ret.val.type = "CANDIDATE") => ret.val.status = "momentum"

\* A momentum record against a benchmark that itself rose over the window.
C7_Witness ==
    /\ EmergingReturned
    /\ ret.val.status = "momentum"
    /\ ret.emerging_config = get_emerging_rotation_config(<<>>)
    /\ SLen(ret.benchmark_series) >= ExpansionRules.relative_strength_window
    /\ Latest(ret.benchmark_series) > At(ret.benchmark_series, 1)

--------------------------------------------------------------------------
(* compute_drawdown applied to a price and a reference high *)

MaxQuote == 12

\* One day of history: a Close from 0 up and a High that may be zero or
\* negative, the arguments compute_drawdown guards against.
QuoteFrames ==
    { <<[c |-> p, h |-> hi, n |-> 1]>> : p \in 0..MaxQuote, hi \in -2..MaxQuote }

InitIndicators ==
    /\ df \in QuoteFrames
    /\ ret = Idle
    /\ NoRun
    /\ NoService
    /\ NoFiles

CallComputeDrawdown ==
    /\ ret = Idle
    /\ LET current_price == Latest(get_close_series(df))
           high_price    == Latest(get_high_series(df))
       IN  ret' = [ fn |-> "compute_drawdown",
                    current_price |-> current_price, high_price |-> high_price,
                    val |-> compute_drawdown(current_price, high_price) ]
    /\ UNCHANGED <<df, run_vars, svc_vars, file_vars>>

\* Slopes and relative strengths from a loss of 100% to a gain of 10,000%.
ScoreRatios == { Rat(-1, 1), Rat(0, 1), Bp(250), Bp(500), Rat(10, 1), Rat(100, 1) }

\* Weight mappings: none given, the defaults, a partial one, and weights
\* that sum to more than 1.
WeightMaps ==
    { <<>>,
      [above_ma |-> Bp(2500), slope |-> Bp(2500), drawdown |-> Bp(2500),
       relative_strength |-> Bp(2500)],
      [drawdown |-> Bp(5000)],
      [above_ma |-> Rat(1, 1), slope |-> Rat(1, 1), drawdown |-> Rat(1, 1),
       relative_strength |-> Rat(1, 1)] }

\* compute_discovery_score on the drawdown of the day's Close from its High
\* (negative when the Close is above the High) and on arbitrary slope,
\* relative strength, flag and weights.
CallComputeDiscoveryScore ==
    /\ ret = Idle
    /\ \E slope \in ScoreRatios, relative_strength \in ScoreRatios,
          above \in BOOLEAN, weights \in WeightMaps :
         LET drawdown == compute_drawdown(Latest(get_close_series(df)),
                                          Latest(get_high_series(df)))
         IN  ret' = [ fn |-> "compute_discovery_score", drawdown |-> drawdown,
                      slope |-> slope, is_above_ma |-> above,
                      relative_strength |-> relative_strength, weights |-> weights,
                      val |-> compute_discovery_score(drawdown, slope, above,
                                                      relative_strength, weights) ]
    /\ UNCHANGED <<df, run_vars, svc_vars, file_vars>>

NextIndicators ==
    \/ CallComputeDrawdown
    \/ CallComputeDiscoveryScore

SpecIndicators == InitIndicators /\ [][NextIndicators]_vars

\* C10 as stated: compute_drawdown(p, h) lies in [0, 1] for every h > 0 and
\* p >= 0, and is 0 whenever h <= 0.
C10_AsStated ==
    IsCall("compute_drawdown") =>
        /\ (ret.high_price > 0 /\ ret.current_price >= 0) =>
               /\ ~IsNone(ret.val)
               /\ RLe(Rat(0, 1), ret.val) /\ RLe(ret.val, Rat(1, 1))
        /\ (ret.high_price <= 0) => (~IsNone(ret.val) /\ ret.val.n = 0)

\* C10: compute_drawdown(p, h) lies in [0, 1] for every h > 0 and
\* 0 <= p <= h, is at most 1 and below 0 for every p > h > 0, and is 0
\* whenever h <= 0.
C10_DrawdownRange ==
    IsCall("compute_drawdown") =>
        /\ (ret.high_price > 0 /\ ret.current_price >= 0) =>
               /\ ~IsNone(ret.val)
               /\ RLe(ret.val, Rat(1, 1))
               /\ RLe(Rat(0, 1), ret.val) <=> (ret.current_price <= ret.high_price)
        /\ (ret.high_price <= 0) => (~IsNone(ret.val) /\ ret.val.n = 0)

\* A price above a positive reference high: the drawdown is negative.
C10_Witness ==
    /\ IsCall("compute_drawdown")
    /\ ret.high_price > 0
    /\ ret.current_price > ret.high_price
    /\ RLt(ret.val, Rat(0, 1))

--------------------------------------------------------------------------
(* analyze_monitored_symbols: one monitoring run over fetched data *)

MaxSymbols == 2

Range(q) == { q[i] : i \in DOMAIN q }

\* An optional value: <<>> for a symbol the download returned nothing for.
Opt(S) == {<<>>} \cup { <<x>> : x \in S }

\* The mapping batch_download returns: the symbols that have a DataFrame.
Fetched(f) == [ s \in { x \in DOMAIN f : Len(f[x]) = 1 } |-> f[s][1] ]

Days(c, w, n) == [c |-> c, h |-> c + w, n |-> n]

\* Histories of a monitored symbol: a quiet one, a short one, a pullback
\* above a rising average, one 5% under its 42-day high but more than
\* 10% under its 63-day high, and one of 100 rows without a closing quote.
SymbolFrames ==
    { <<Days(34, 0, 104)>>,
      <<[c |-> NaN, h |-> 40, n |-> 100]>>,
      <<Days(40, 0, 4)>>,
      <<Days(18, 0, 100), Days(40, 0, 10), Days(38, 0, 4)>>,
      <<Days(18, 0, 100), Days(45, 0, 10), Days(40, 0, 40), Days(38, 0, 4)>> }

\* Histories of a bank: dips of exactly 15% from the high, above and below
\* the 200-day average, a dip of 5% and a dip of 55%.
BankFrames ==
    { <<Days(18, 0, 200), Days(40, 0, 4), Days(34, 0, 4)>>,
      <<Days(40, 0, 200), Days(34, 0, 4)>>,
      <<Days(40, 0, 100), Days(38, 0, 4)>>,
      <<Days(40, 0, 100), Days(18, 0, 4)>> }

\* Histories of the three stress-watch symbols, calm and stressed.
SpyFrames == { <<Days(40, 0, 104)>>, <<Days(40, 0, 100), Days(34, 0, 4)>> }
VixyFrames == { <<Days(18, 0, 14)>>, <<Days(18, 0, 10), Days(40, 0, 4)>> }
KreFrames == { <<Days(40, 0, 104)>>, <<Days(40, 0, 100), Days(34, 0, 4)>> }

MonitorData ==
    { Fetched([AAA |-> a, JPM |-> j, SPY |-> sp, VIXY |-> <<vx>>, KRE |-> <<kr>>]) :
        a \in Opt(SymbolFrames), j \in Opt(BankFrames),
        sp \in Opt(SpyFrames), vx \in VixyFrames, kr \in KreFrames }

MkConfig(stress_symbols, exit, entry, opportunity) ==
    [ categories |->
        [ core_trend |-> [ rules |-> [exit |-> exit, entry |-> entry] ],
          stress_opportunities |->
              [ symbols |-> stress_symbols, rules |-> [opportunity |-> opportunity] ] ] ]

MonitorConfigs ==
    { MkConfig(<<"JPM">>, <<>>, <<>>, <<>>),
      MkConfig(<<"JPM">>, <<>>, <<>>, [requires_market_stress_confirmation |-> FALSE]),
      <<>> }

MonitorLists == UNION { [1..m -> {"AAA", "JPM"}] : m \in 1..MaxSymbols }

\* The Close and High series of a fetched symbol.
CloseOf(s) == get_close_series(all_data[s])
HighOf(s) == get_high_series(all_data[s])

Raised(r) == r.type = "Error"
Returned(r) == r.type \notin {"None", "Error"}

\* A slip: no `continue` after an exit alert, the entry check made as well.
analyze_symbol_entry_after_exit(symbol, data, cfg, stressed, lists) ==
    LET exit_thresholds   == get_exit_thresholds(get_category_rules(cfg, "core_trend", "exit"))
        entry_thresholds  == get_entry_thresholds(get_category_rules(cfg, "core_trend", "entry"))
        stress_thresholds == get_stress_opportunity_thresholds(
                                 get_category_rules(cfg, "stress_opportunities", "opportunity"))
        stress_symbols    == Range(get_category_symbols(cfg, "stress_opportunities"))
    IN  IF ~Has(data, symbol) \/ DfLen(data[symbol]) < 100 THEN lists
        ELSE
        LET close       == get_close_series(data[symbol])
            high        == get_high_series(data[symbol])
            metrics     == get_symbol_metrics(symbol, close, high, exit_thresholds,
                                              entry_thresholds, 1)
            bank_alert  == check_bank_opportunity(symbol, close, high, stress_thresholds,
                                                  stressed)
            exit_alert  == check_exit_risk(symbol, close, high, exit_thresholds)
            entry_alert == check_entry_opportunity(symbol, close, high, entry_thresholds)
            m == IF Returned(metrics)
                 THEN [lists EXCEPT !.all_metrics = Append(@, metrics)] ELSE lists
        IN  IF Raised(metrics) THEN [lists EXCEPT !.raised = TRUE]
            ELSE IF symbol \in stress_symbols
            THEN IF Raised(bank_alert) THEN [m EXCEPT !.raised = TRUE]
                 ELSE IF Returned(bank_alert)
                 THEN [m EXCEPT !.bank_opps = Append(@, bank_alert)]
                 ELSE m
            ELSE IF Raised(exit_alert) \/ Raised(entry_alert) THEN [m EXCEPT !.raised = TRUE]
            ELSE LET x == IF Returned(exit_alert)
                          THEN [m EXCEPT !.exit_risks = Append(@, exit_alert)] ELSE m
                 IN  IF Returned(entry_alert)
                     THEN [x EXCEPT !.entry_opps = Append(@, entry_alert)] ELSE x

\* The body of the loop of analyze_monitored_symbols for one symbol:
\* `lists` are the four result lists so far, with `raised` set when a call
\* raises (nothing in the function catches it).
analyze_symbol(symbol, data, cfg, stressed, lists) ==
    LET exit_thresholds   == get_exit_thresholds(get_category_rules(cfg, "core_trend", "exit"))
        entry_thresholds  == get_entry_thresholds(get_category_rules(cfg, "core_trend", "entry"))
        stress_thresholds == get_stress_opportunity_thresholds(
                                 get_category_rules(cfg, "stress_opportunities", "opportunity"))
        stress_symbols    == Range(get_category_symbols(cfg, "stress_opportunities"))
    IN  IF ~Has(data, symbol) \/ DfLen(data[symbol]) < 100 THEN lists
        ELSE
        LET close       == get_close_series(data[symbol])
            high        == get_high_series(data[symbol])
            metrics     == get_symbol_metrics(symbol, close, high, exit_thresholds,
                                              entry_thresholds, 1)
            bank_alert  == check_bank_opportunity(symbol, close, high, stress_thresholds,
                                                  stressed)
            exit_alert  == check_exit_risk(symbol, close, high, exit_thresholds)
            entry_alert == check_entry_opportunity(symbol, close, high, entry_thresholds)
            m == IF Returned(metrics)
                 THEN [lists EXCEPT !.all_metrics = Append(@, metrics)] ELSE lists
        IN  IF Raised(metrics) THEN [lists EXCEPT !.raised = TRUE]
            ELSE IF symbol \in stress_symbols
            THEN IF Raised(bank_alert) THEN [m EXCEPT !.raised = TRUE]
                 ELSE IF Returned(bank_alert)
                 THEN [m EXCEPT !.bank_opps = Append(@, bank_alert)]
                 ELSE m
            ELSE IF Raised(exit_alert) THEN [m EXCEPT !.raised = TRUE]
            ELSE IF Returned(exit_alert)
            THEN [m EXCEPT !.exit_risks = Append(@, exit_alert)]
            ELSE IF Raised(entry_alert) THEN [m EXCEPT !.raised = TRUE]
            ELSE IF Returned(entry_alert)
            THEN [m EXCEPT !.entry_opps = Append(@, entry_alert)]
            ELSE m

InitMonitorRun ==
    /\ df = <<>>
    /\ ret = Idle
    /\ config \in MonitorConfigs
    /\ universe = <<>>
    /\ all_data \in MonitorData
    /\ monitor_symbols \in MonitorLists
    /\ pc = "idle"
    /\ todo = <<>>
    /\ market_stressed = FALSE
    /\ exit_risks = <<>>
    /\ entry_opps = <<>>
    /\ bank_opps = <<>>
    /\ all_metrics = <<>>
    /\ recommendations = <<>>
    /\ NoService
    /\ NoFiles

\* Entry of analyze_monitored_symbols up to the loop: the empty lists, the
\* thresholds and the market-stress check.
AnalyzeStart ==
    /\ pc = "idle"
    /\ market_stressed' = check_market_stress(all_data,
            get_stress_opportunity_thresholds(
                get_category_rules(config, "stress_opportunities", "opportunity")))
    /\ todo' = monitor_symbols
    /\ pc' = "analyze"
    /\ exit_risks' = <<>> /\ entry_opps' = <<>> /\ bank_opps' = <<>> /\ all_metrics' = <<>>
    /\ UNCHANGED <<df, svc_vars, file_vars, ret, config, universe, all_data, monitor_symbols, recommendations>>

\* One iteration of `for symbol in monitor_symbols`.
AnalyzeSymbol ==
    /\ pc = "analyze"
    /\ todo # <<>>
    /\ LET r == analyze_symbol(Head(todo), all_data, config, market_stressed,
                               [ exit_risks |-> exit_risks, entry_opps |-> entry_opps,
                                 bank_opps |-> bank_opps, all_metrics |-> all_metrics,
                                 raised |-> FALSE ])
       IN  /\ exit_risks' = r.exit_risks
           /\ entry_opps' = r.entry_opps
           /\ bank_opps' = r.bank_opps
           /\ all_metrics' = r.all_metrics
           /\ pc' = IF r.raised THEN "raised" ELSE pc
    /\ todo' = Tail(todo)
    /\ UNCHANGED <<df, svc_vars, file_vars, ret, config, universe, all_data, monitor_symbols, market_stressed, recommendations>>

\* The loop is exhausted: the four lists are returned.
AnalyzeReturn ==
    /\ pc = "analyze"
    /\ todo = <<>>
    /\ pc' = "done"
    /\ UNCHANGED <<df, svc_vars, file_vars, ret, config, universe, all_data, monitor_symbols, todo, market_stressed, exit_risks, entry_opps, bank_opps, all_metrics, recommendations>>

NextMonitorRun ==
    \/ AnalyzeStart
    \/ AnalyzeSymbol
    \/ AnalyzeReturn

SpecMonitorRun == InitMonitorRun /\ [][NextMonitorRun]_vars

--------------------------------------------------------------------------
(* Properties of a monitoring run *)

RunExitThresholds == get_exit_thresholds(get_category_rules(config, "core_trend", "exit"))
RunEntryThresholds == get_entry_thresholds(get_category_rules(config, "core_trend", "entry"))
RunStressRules == get_category_rules(config, "stress_opportunities", "opportunity")
StressSymbols == Range(get_category_symbols(config, "stress_opportunities"))

InMonitorRun == pc \in {"analyze", "done"}

\* The symbols the loop has been through.
Visited == { monitor_symbols[i] : i \in 1..(Len(monitor_symbols) - Len(todo)) }

SymbolsOf(alerts) == { alerts[i].symbol : i \in DOMAIN alerts }

\* C1: in one run of analyze_monitored_symbols no symbol is in both the exit
\* and the entry list; an entry alert is given only to a symbol whose exit
\* check returned nothing; and a symbol of the stress_opportunities category
\* is in neither list.
C1_ExitEntryExclusive ==
    InMonitorRun =>
        /\ SymbolsOf(exit_risks) \cap SymbolsOf(entry_opps) = {}
        /\ \A i \in DOMAIN exit_risks : exit_risks[i].type = "EXIT_RISK"
        /\ \A i \in DOMAIN entry_opps :
               /\ entry_opps[i].type = "ENTRY_OPPORTUNITY"
               /\ check_exit_risk(entry_opps[i].symbol, CloseOf(entry_opps[i].symbol),
                                  HighOf(entry_opps[i].symbol), RunExitThresholds).type = "None"
        /\ (SymbolsOf(exit_risks) \cup SymbolsOf(entry_opps)) \cap StressSymbols = {}

\* A finished run in which AAA got an exit alert although its entry check
\* would have fired too, and the bank JPM, whose exit check would have
\* fired, got neither alert.
C1_Witness ==
    /\ pc = "done"
    /\ "AAA" \in SymbolsOf(exit_risks)
    /\ check_entry_opportunity("AAA", CloseOf("AAA"), HighOf("AAA"),
                               RunEntryThresholds).type = "ENTRY_OPPORTUNITY"
    /\ "JPM" \in Range(monitor_symbols) \cap StressSymbols
    /\ Has(all_data, "JPM")
    /\ check_exit_risk("JPM", CloseOf("JPM"), HighOf("JPM"),
                       RunExitThresholds).type = "EXIT_RISK"
    /\ "JPM" \notin SymbolsOf(exit_risks) \cup SymbolsOf(entry_opps)

\* The three market-stress signals, read off the fetched data: the SPY
\* drawdown from its 63-day high is at least 8%, VIXY is above its 10-day
\* average, KRE is below its 100-day average.
SpySignal ==
    /\ Has(all_data, "SPY")
    /\ SLen(CloseOf("SPY")) > 0
    /\ RGe(compute_drawdown(Latest(CloseOf("SPY")), MaxRange(HighOf("SPY"),
               SLen(HighOf("SPY")) - 62, SLen(HighOf("SPY")))), Bp(800))
VixySignal ==
    /\ Has(all_data, "VIXY")
    /\ SLen(CloseOf("VIXY")) >= 10
    /\ RGt(Int2Rat(Latest(CloseOf("VIXY"))), compute_ma(CloseOf("VIXY"), 10, SLen(CloseOf("VIXY"))))
KreSignal ==
    /\ Has(all_data, "KRE")
    /\ SLen(CloseOf("KRE")) >= 100
    /\ RLt(Int2Rat(Latest(CloseOf("KRE"))), compute_ma(CloseOf("KRE"), 100, SLen(CloseOf("KRE"))))
SignalCount ==
    (IF SpySignal THEN 1 ELSE 0) + (IF VixySignal THEN 1 ELSE 0) + (IF KreSignal THEN 1 ELSE 0)

\* The drawdown of a bank from its dip_lookback_days (126) high.
BankDrawdown(s) ==
    compute_drawdown(Latest(CloseOf(s)), get_period_high(HighOf(s), 126))
BankInRange(s) == RLe(Bp(1500), BankDrawdown(s)) /\ RLe(BankDrawdown(s), Bp(3500))
BankAbove200(s) ==
    /\ SLen(CloseOf(s)) >= 200
    /\ RGt(Int2Rat(Latest(CloseOf(s))), compute_ma(CloseOf(s), 200, SLen(CloseOf(s))))

\* The banks the loop has been through with enough history to be analysed.
AnalysedBanks ==
    { s \in Visited \cap StressSymbols : Has(all_data, s) /\ DfLen(all_data[s]) >= 100 }

\* C9: with the default stress thresholds a bank gets a bank-opportunity
\* record exactly when at least 2 of the 3 stress signals are true and its
\* drawdown from the dip_lookback_days high is in [min_drawdown,
\* max_drawdown], both ends included; with 1 signal there is none whatever
\* the drawdown; the 200-day-average flag is recorded and gates nothing.
C9_BankGatedByStress ==
    (InMonitorRun /\ RunStressRules = <<>>) =>
        /\ \A s \in AnalysedBanks :
               (s \in SymbolsOf(bank_opps)) <=> (SignalCount >= 2 /\ BankInRange(s))
        /\ SignalCount <= 1 => bank_opps = <<>>
        /\ \A i \in DOMAIN bank_opps :
               /\ bank_opps[i].type = "BANK_OPPORTUNITY_WATCH"
               /\ bank_opps[i].above_200dma = BankAbove200(bank_opps[i].symbol)
               /\ REq(bank_opps[i].drawdown_pct, Pct(BankDrawdown(bank_opps[i].symbol)))

\* A finished run with exactly 2 stress signals in which a bank exactly 15%
\* under its high, and below its 200-day average, got a record.
C9_Witness ==
    /\ pc = "done"
    /\ RunStressRules = <<>>
    /\ SignalCount = 2
    /\ "JPM" \in SymbolsOf(bank_opps)
    /\ REq(BankDrawdown("JPM"), Bp(1500))
    /\ SLen(CloseOf("JPM")) >= 200
    /\ ~BankAbove200("JPM")

--------------------------------------------------------------------------
(* run_discovery: one discovery run over fetched data.  The universe keeps *)
(* the emerging baskets (its "emerging_<name>" keys) as a sequence of      *)
(* [name, symbols] in the order of config.json.                            *)

load_universe(cfg) ==
    [ core_trend           |-> get_category_symbols(cfg, "core_trend"),
      stress_opportunities |-> get_category_symbols(cfg, "stress_opportunities"),
      defensive_protection |-> get_category_symbols(cfg, "defensive_protection"),
      baskets              |-> Get(get_category_config(cfg, "emerging_rotation"),
                                   "baskets", <<>>) ]

\* The <<basket, symbol>> pairs the emerging loop visits, in order.
RECURSIVE BasketItems(_)
BasketItems(baskets) ==
    IF baskets = <<>> THEN <<>>
    ELSE [ i \in 1..Len(Head(baskets).symbols) |->
             <<Head(baskets).name, Head(baskets).symbols[i]>> ]
         \o BasketItems(Tail(baskets))

\* Histories of a bank in the discovery universe: the dips of BankFrames,
\* one with 130 days of history, and a stock under 5 a share.
DiscoveryBankFrames ==
    BankFrames \cup
    { <<Days(40, 0, 126), Days(34, 0, 4)>>,
      <<Days(4, 0, 204)>> }

DiscoveryData ==
    { Fetched([AAA |-> a, JPM |-> j, TLT |-> t, SPY |-> sp]) :
        a \in Opt(SymbolFrames), j \in Opt(DiscoveryBankFrames),
        t \in Opt({<<Days(34, 0, 204)>>}), sp \in Opt({<<Days(40, 0, 204)>>}) }

MkCategories(core, baskets, stress, defensive) ==
    [ core_trend           |-> [symbols |-> core],
      emerging_rotation    |-> [baskets |-> baskets],
      stress_opportunities |-> [symbols |-> stress],
      defensive_protection |-> [symbols |-> defensive] ]

DiscoveryConfigs ==
    { [ categories |-> MkCategories(<<"AAA">>, <<[name |-> "ai", symbols |-> <<"AAA">>]>>,
                                    <<"JPM">>, <<"TLT">>) ],
      [ categories |-> MkCategories(<<"AAA">>, <<>>, <<"JPM", "AAA">>, <<"TLT">>),
        global_filters |-> [min_history_days |-> 100, min_price |-> 5] ] }

\* The common part of the four loops: a symbol is skipped when it has no
\* data or fails the global filters; otherwise the classifier's candidate,
\* if any, is appended.  A classifier that raises ends the run.
Screened(symbol) ==
    /\ Has(all_data, symbol)
    /\ passes_global_filters(symbol, get_close_series(all_data[symbol]),
                             get_global_filters(config))

Collect(candidate) ==
    /\ recommendations' = IF Returned(candidate)
                          THEN Append(recommendations, candidate) ELSE recommendations
    /\ pc' = IF Raised(candidate) THEN "raised" ELSE pc

InitDiscoveryRun ==
    /\ df = <<>>
    /\ ret = Idle
    /\ config \in DiscoveryConfigs
    /\ universe = load_universe(config)
    /\ all_data \in DiscoveryData
    /\ monitor_symbols = <<>>
    /\ pc = "idle"
    /\ todo = <<>>
    /\ market_stressed = FALSE
    /\ exit_risks = <<>>
    /\ entry_opps = <<>>
    /\ bank_opps = <<>>
    /\ all_metrics = <<>>
    /\ recommendations = <<>>
    /\ NoService
    /\ NoFiles

discovery_fixed == <<df, svc_vars, file_vars, ret, config, universe, all_data, monitor_symbols, market_stressed, exit_risks, entry_opps, bank_opps, all_metrics>>

\* A slip: the benchmark read as all_data["SPY"], a KeyError when the
\* fetch returned no DataFrame for it.
DiscoveryStart_benchmark_subscript ==
    /\ pc = "idle"
    /\ recommendations' = <<>>
    /\ pc' = IF Has(all_data, "SPY") THEN "core_trend" ELSE "raised"
    /\ todo' = Get(universe, "core_trend", <<>>)
    /\ UNCHANGED discovery_fixed

DiscoveryStart ==
    /\ pc = "idle"
    /\ recommendations' = <<>>
    /\ pc' = "core_trend"
    /\ todo' = Get(universe, "core_trend", <<>>)
    /\ UNCHANGED discovery_fixed

DiscoverCoreTrend ==
    /\ pc = "core_trend"
    /\ todo # <<>>
    /\ LET symbol == Head(todo)
       IN  IF ~Screened(symbol) THEN UNCHANGED <<recommendations, pc>>
           ELSE Collect(evaluate_core_trend_candidate(symbol, CloseOf(symbol), HighOf(symbol),
                            get_entry_thresholds(get_category_rules(config, "core_trend", "entry")),
                            get_discovery_scoring_thresholds))
    /\ todo' = Tail(todo)
    /\ UNCHANGED discovery_fixed

DiscoverEmergingRotation ==
    /\ pc = "emerging_rotation"
    /\ todo # <<>>
    /\ LET basket_name == Head(todo)[1]
           symbol      == Head(todo)[2]
       IN  IF ~Has(all_data, "SPY") \/ ~Screened(symbol) THEN UNCHANGED <<recommendations, pc>>
           ELSE Collect(evaluate_emerging_rotation_candidate(symbol, CloseOf(symbol),
                            HighOf(symbol), CloseOf("SPY"), basket_name,
                            get_emerging_rotation_config(
                                get_category_rules(config, "emerging_rotation", "entry")),
                            get_discovery_scoring_thresholds))
    /\ todo' = Tail(todo)
    /\ UNCHANGED discovery_fixed

DiscoverStressOpportunity ==
    /\ pc = "stress_opportunities"
    /\ todo # <<>>
    /\ LET symbol == Head(todo)
       IN  IF ~Screened(symbol) THEN UNCHANGED <<recommendations, pc>>
           ELSE Collect(evaluate_stress_opportunity_candidate(symbol, CloseOf(symbol),
                            HighOf(symbol),
                            get_stress_opportunity_thresholds(
                                get_category_rules(config, "stress_opportunities", "opportunity"))))
    /\ todo' = Tail(todo)
    /\ UNCHANGED discovery_fixed

DiscoverDefensive ==
    /\ pc = "defensive_protection"
    /\ todo # <<>>
    /\ LET symbol == Head(todo)
       IN  IF ~Screened(symbol) THEN UNCHANGED <<recommendations, pc>>
           ELSE Collect(evaluate_defensive_candidate(symbol, CloseOf(symbol), HighOf(symbol)))
    /\ todo' = Tail(todo)
    /\ UNCHANGED discovery_fixed

\* A loop is exhausted: the next loop starts, or the list is returned.
NextCategory ==
    /\ todo = <<>>
    /\ \/ /\ pc = "core_trend"
          /\ pc' = "emerging_rotation"
          /\ todo' = BasketItems(Get(universe, "baskets", <<>>))
       \/ /\ pc = "emerging_rotation"
          /\ pc' = "stress_opportunities"
          /\ todo' = Get(universe, "stress_opportunities", <<>>)
       \/ /\ pc = "stress_opportunities"
          /\ pc' = "defensive_protection"
          /\ todo' = Get(universe, "defensive_protection", <<>>)
       \/ /\ pc = "defensive_protection"
          /\ pc' = "done"
          /\ todo' = <<>>
    /\ UNCHANGED recommendations
    /\ UNCHANGED discovery_fixed

NextDiscoveryRun ==
    \/ DiscoveryStart
    \/ DiscoverCoreTrend
    \/ DiscoverEmergingRotation
    \/ DiscoverStressOpportunity
    \/ DiscoverDefensive
    \/ NextCategory

SpecDiscoveryRun == InitDiscoveryRun /\ [][NextDiscoveryRun]_vars

--------------------------------------------------------------------------
(* Properties of a discovery run *)

StressUniverse == Range(Get(universe, "stress_opportunities", <<>>))

StressRecords ==
    { recommendations[i] : i \in { j \in DOMAIN recommendations :
                                     recommendations[j].category = "stress_opportunities" } }

\* The stress loop has been through all its symbols.
StressLoopDone == pc \in {"defensive_protection", "done"}

GlobalFilters == Get(config, "global_filters", [min_history_days |-> 120, min_price |-> 5])

\* The symbol has data that passes the global prefilter.
PassesPrefilter(s) ==
    /\ Has(all_data, s)
    /\ SLen(CloseOf(s)) >= Get(GlobalFilters, "min_history_days", 126)
    /\ Latest(CloseOf(s)) >= Get(GlobalFilters, "min_price", 5)

StressStatusRight ==
    \A r \in StressRecords :
        r.status = IF BankInRange(r.symbol) THEN "opportunity_zone" ELSE "watch"

\* C8 as stated: every symbol of the stress_opportunities category produces
\* a record in a discovery run, whatever its price series, with status
\* opportunity_zone iff min_drawdown <= drawdown <= max_drawdown.
C8_AsStated ==
    StressLoopDone =>
        /\ \A s \in StressUniverse : \E r \in StressRecords : r.symbol = s
        /\ StressStatusRight

\* C8: in a discovery run a symbol of the stress_opportunities category
\* produces a record exactly when it has fetched data that passes the
\* global prefilter (history of at least min_history_days, price at least
\* min_price); the classifier itself rejects nothing; the record's status
\* is opportunity_zone iff min_drawdown <= drawdown <= max_drawdown, both
\* ends included, and watch otherwise.
C8_StressRecordedWhenPrefiltered ==
    StressLoopDone =>
        /\ \A s \in StressUniverse :
               (\E r \in StressRecords : r.symbol = s) <=> PassesPrefilter(s)
        /\ \A r \in StressRecords : r.symbol \in StressUniverse
        /\ StressStatusRight

\* A finished run in which the bank JPM, exactly 15% under its high, has an
\* opportunity_zone record, and AAA, listed in the same category with four
\* days of history, has none.
C8_Witness ==
    /\ pc = "done"
    /\ {"JPM", "AAA"} \subseteq StressUniverse
    /\ \E r \in StressRecords :
          /\ r.symbol = "JPM"
          /\ r.status = "opportunity_zone"
          /\ REq(BankDrawdown("JPM"), Bp(1500))
    /\ Has(all_data, "AAA")
    /\ ~PassesPrefilter("AAA")
    /\ ~\E r \in StressRecords : r.symbol = "AAA"

--------------------------------------------------------------------------
(* Properties of compute_discovery_score *)

--------------------------------------------------------------------------
(* The series indicators, each applied once to a price history *)

\* Histories ending in a one-day decline of exactly 3%, 5% and 7%, and of
\* a little less and a little more than 7%.
DeclineFrames ==
    { <<Days(100, 0, 4), Days(last, 0, 1)>> : last \in {97, 95, 94, 93, 92} }

StabilityDays == {2, 5}

StabilityDrops == { Bp(300), Bp(500), Bp(700) }

MaWindows == {10, 100}

SlopeWindows == {1, 5, 10}

InitSeriesFns ==
    /\ df \in Frames \cup DeclineFrames
    /\ ret = Idle
    /\ NoRun
    /\ NoService
    /\ NoFiles

CallGetMultiTimeframeHighs ==
    /\ ret = Idle
    /\ ret' = [ fn |-> "get_multi_timeframe_highs",
                val |-> get_multi_timeframe_highs(get_high_series(df)) ]
    /\ UNCHANGED <<df, run_vars, svc_vars, file_vars>>

CallCheckStability ==
    /\ ret = Idle
    /\ \E days \in StabilityDays, max_single_day_drop \in StabilityDrops :
         ret' = [ fn |-> "check_stability", days |-> days,
                  max_single_day_drop |-> max_single_day_drop,
                  val |-> check_stability(get_close_series(df), days, max_single_day_drop) ]
    /\ UNCHANGED <<df, run_vars, svc_vars, file_vars>>

CallComputeMaSlope ==
    /\ ret = Idle
    /\ \E ma_window \in MaWindows, slope_window \in SlopeWindows :
         ret' = [ fn |-> "compute_ma_slope", ma_window |-> ma_window,
                  slope_window |-> slope_window,
                  val |-> compute_ma_slope(get_close_series(df), ma_window, slope_window) ]
    /\ UNCHANGED <<df, run_vars, svc_vars, file_vars>>

NextSeriesFns ==
    \/ CallGetMultiTimeframeHighs
    \/ CallCheckStability
    \/ CallComputeMaSlope

SpecSeriesFns == InitSeriesFns /\ [][NextSeriesFns]_vars

\* The maximum over exactly the trailing n highs, 0 when there are fewer.
TrailingHigh(n) ==
    IF SLen(High) < n THEN 0
    ELSE MaxRange(High, SLen(High) - n + 1, SLen(High))

\* C12: get_multi_timeframe_highs returns for 1 week, 1 month and 3 months
\* the maximum over exactly the trailing 5, 21 and 63 highs, and 0 for a
\* timeframe the high series is too short for.
C12_AsStated ==
    IsCall("get_multi_timeframe_highs") =>
        /\ ret.val.high_1w = TrailingHigh(5)
        /\ ret.val.high_1m = TrailingHigh(21)
        /\ ret.val.high_3m = TrailingHigh(63)

\* The day-over-day declines inside the trailing `days` observations are
\* all of magnitude strictly below the threshold.
DeclinesBelow(days, max_single_day_drop) ==
    \A i \in (SLen(Close) - days + 2) .. SLen(Close) :
        At(Close, i) < At(Close, i - 1) =>
            RLt(Rat(At(Close, i - 1) - At(Close, i), At(Close, i - 1)), max_single_day_drop)

\* C13: check_stability(series, days, max_single_day_drop) is true iff the
\* series has at least `days` observations and every day-over-day decline
\* inside the trailing `days` observations is of magnitude strictly less
\* than max_single_day_drop; a decline of exactly the threshold gives false.
C13_AsStated ==
    IsCall("check_stability") =>
        ret.val <=> /\ SLen(Close) >= ret.days
                    /\ DeclinesBelow(ret.days, ret.max_single_day_drop)

\* The relative change of the moving average between the observation
\* `slope_window` before the latest one and the latest one; 0 when the
\* smoothed history does not reach that far back or the earlier value is 0.
SlopeOverWindow(ma_window, slope_window) ==
    IF ma_count(Close, ma_window) < slope_window + 1 THEN Rat(0, 1)
    ELSE LET ma_then == compute_ma(Close, ma_window, SLen(Close) - slope_window)
             ma_now  == compute_ma(Close, ma_window, SLen(Close))
         IN  IF ma_then.n = 0 THEN Rat(0, 1)
             ELSE Rat(ma_now.n - ma_then.n, ma_then.n)

\* C14: compute_ma_slope(series, ma_window, slope_window) is
\* (ma_now - ma_then) / ma_then, ma_then being the moving-average value
\* slope_window observations before the latest one, and 0 when the smoothed
\* history is too short to reach that far back or ma_then is 0.
C14_AsStated ==
    IsCall("compute_ma_slope") =>
        REq(ret.val, SlopeOverWindow(ret.ma_window, ret.slope_window))

--------------------------------------------------------------------------
(* The classifiers called with a partial threshold mapping: the mapping   *)
(* the configuration resolves to, with one key left out.                  *)

Without(m, key) == [ k \in DOMAIN m \ {key} |-> m[k] ]

\* The mappings that lack at most one key of `full`.
Partial(full) == {full} \cup { Without(full, key) : key \in DOMAIN full }

InitPartial ==
    /\ df \in Frames \ {<<>>}
    /\ ret = Idle
    /\ NoRun
    /\ NoService
    /\ NoFiles

CallCheckExitRiskPartial ==
    /\ ret = Idle
    /\ \E thresholds \in Partial(get_exit_thresholds(<<>>)) :
         ret' = [ fn |-> "check_exit_risk", thresholds |-> thresholds,
                  val |-> check_exit_risk("AAA", get_close_series(df),
                                          get_high_series(df), thresholds) ]
    /\ UNCHANGED <<df, run_vars, svc_vars, file_vars>>

CallCheckEntryOpportunityPartial ==
    /\ ret = Idle
    /\ \E thresholds \in Partial(get_entry_thresholds(<<>>)) :
         ret' = [ fn |-> "check_entry_opportunity", thresholds |-> thresholds,
                  val |-> check_entry_opportunity("AAA", get_close_series(df),
                                                  get_high_series(df), thresholds) ]
    /\ UNCHANGED <<df, run_vars, svc_vars, file_vars>>

CallEvaluateCoreTrendPartial ==
    /\ ret = Idle
    /\ \E thresholds \in Partial(get_entry_thresholds(<<>>)) :
         ret' = [ fn |-> "evaluate_core_trend_candidate", thresholds |-> thresholds,
                  val |-> evaluate_core_trend_candidate("AAA", get_close_series(df),
                              get_high_series(df), thresholds,
                              get_discovery_scoring_thresholds) ]
    /\ UNCHANGED <<df, run_vars, svc_vars, file_vars>>

NextPartial ==
    \/ CallCheckExitRiskPartial
    \/ CallCheckEntryOpportunityPartial
    \/ CallEvaluateCoreTrendPartial

SpecPartial == InitPartial /\ [][NextPartial]_vars

\* The result of the same call with every absent key at its documented
\* default.
WithDefaults ==
    IF IsCall("check_exit_risk")
    THEN check_exit_risk("AAA", Close, High, get_exit_thresholds(<<>>))
    ELSE IF IsCall("check_entry_opportunity")
    THEN check_entry_opportunity("AAA", Close, High, get_entry_thresholds(<<>>))
    ELSE evaluate_core_trend_candidate("AAA", Close, High,
             get_entry_thresholds(<<>>), get_discovery_scoring_thresholds)

\* C15: called with a threshold mapping that lacks a key, each of
\* evaluate_core_trend_candidate, check_exit_risk and check_entry_opportunity
\* does not fail and returns what it returns with that key at its default.
C15_AsStated ==
    ret # Idle => ~Raised(ret.val) /\ ret.val = WithDefaults

--------------------------------------------------------------------------
\* C16: a symbol whose data is missing, empty, malformed or short yields no
\* record and leaves the run going: no input series makes
\* analyze_monitored_symbols abort before the later symbols are classified.
C16_AsStated == pc # "raised"

--------------------------------------------------------------------------
(* Two discovery runs over the same histories: the first with the          *)
(* benchmark fetched, the second after a fetch that returned every symbol  *)
(* but the benchmark.  `ret` keeps what the first run returned.            *)

\* Histories of the benchmark: a flat one, and a pullback above a rising
\* average.
BenchmarkFrames ==
    { <<Days(40, 0, 204)>>,
      <<Days(18, 0, 100), Days(40, 0, 30), Days(38, 0, 4)>> }

BenchmarkData ==
    { Fetched([AAA |-> a, JPM |-> j, TLT |-> t, SPY |-> <<sp>>]) :
        a \in Opt(SymbolFrames), j \in Opt(DiscoveryBankFrames),
        t \in Opt({<<Days(34, 0, 204)>>}), sp \in BenchmarkFrames }

\* The configurations of DiscoveryConfigs and one whose universe holds the
\* benchmark itself.
BenchmarkConfigs ==
    DiscoveryConfigs \cup
    { [ categories |-> MkCategories(<<"AAA", "SPY">>, <<[name |-> "ai", symbols |-> <<"AAA">>]>>,
                                    <<"JPM">>, <<"TLT", "SPY">>),
        global_filters |-> [min_history_days |-> 100, min_price |-> 5] ] }

InitBenchmark ==
    /\ df = <<>>
    /\ ret = Idle
    /\ config \in BenchmarkConfigs
    /\ universe = load_universe(config)
    /\ all_data \in BenchmarkData
    /\ monitor_symbols = <<>>
    /\ pc = "idle"
    /\ todo = <<>>
    /\ market_stressed = FALSE
    /\ exit_risks = <<>>
    /\ entry_opps = <<>>
    /\ bank_opps = <<>>
    /\ all_metrics = <<>>
    /\ recommendations = <<>>
    /\ NoService
    /\ NoFiles

\* main() once more: the first run has returned, batch_download now
\* returns no DataFrame for SPY, and run_discovery is entered again.
FetchWithoutBenchmark ==
    /\ pc = "done"
    /\ ret = Idle
    /\ ret' = [fn |-> "run_discovery", val |-> recommendations]
    /\ all_data' = [ s \in DOMAIN all_data \ {"SPY"} |-> all_data[s] ]
    /\ pc' = "idle"
    /\ recommendations' = <<>>
    /\ UNCHANGED <<df, svc_vars, file_vars, config, universe, monitor_symbols, todo, market_stressed, exit_risks, entry_opps, bank_opps, all_metrics>>

NextBenchmark ==
    \/ DiscoveryStart
    \/ DiscoverCoreTrend
    \/ DiscoverEmergingRotation
    \/ DiscoverStressOpportunity
    \/ DiscoverDefensive
    \/ NextCategory
    \/ FetchWithoutBenchmark

SpecBenchmark == InitBenchmark /\ [][NextBenchmark]_vars

Emerging(r) == r.category = "emerging_rotation"

\* The run without the benchmark has not failed and holds no
\* emerging-rotation record.
NoEmergingNoFailure ==
    /\ pc # "raised"
    /\ \A i \in DOMAIN recommendations : ~Emerging(recommendations[i])

--------------------------------------------------------------------------
(* get_symbol_metrics called twice with the same arguments.  The day the   *)
(* clock shows (datetime.now()) is read by each call; it does not run      *)
(* backwards between the two.                                              *)

MaxDate == 2
Dates == 1..MaxDate

InitTwice ==
    /\ df \in Frames
    /\ ret = Idle
    /\ NoRun
    /\ NoService
    /\ NoFiles

CallGetSymbolMetricsOnce ==
    /\ ret = Idle
    /\ \E now \in Dates :
         ret' = [ fn |-> "get_symbol_metrics", calls |-> 1, now |-> now,
                  val |-> get_symbol_metrics("AAA", get_close_series(df), get_high_series(df),
                              get_exit_thresholds(<<>>), get_entry_thresholds(<<>>), now) ]
    /\ UNCHANGED <<df, run_vars, svc_vars, file_vars>>

CallGetSymbolMetricsAgain ==
    /\ ret # Idle
    /\ ret.calls = 1
    /\ \E now \in { d \in Dates : d >= ret.now } :
         ret' = [ fn |-> "get_symbol_metrics", calls |-> 2, now |-> now,
                  val |-> ret.val,
                  again |-> get_symbol_metrics("AAA", get_close_series(df), get_high_series(df),
                                get_exit_thresholds(<<>>), get_entry_thresholds(<<>>), now) ]
    /\ UNCHANGED <<df, run_vars, svc_vars, file_vars>>

NextTwice ==
    \/ CallGetSymbolMetricsOnce
    \/ CallGetSymbolMetricsAgain

SpecTwice == InitTwice /\ [][NextTwice]_vars

\* C18: two calls of get_symbol_metrics with identical price series and
\* identical thresholds return records identical in every field, whatever
\* the clock shows at each call.
C18_AsStated ==
    (ret # Idle /\ ret.calls = 2) => ret.again = ret.val

--------------------------------------------------------------------------
(* lib/alerts.py: alert dedupe.  A string is kept as the sequence of its   *)
(* pieces, none of which holds a colon but the piece ":" itself.  A        *)
(* timestamp string is either the isoformat of a clock value or a text     *)
(* fromisoformat rejects.                                                  *)

MinutesPerDay == 24 * 60
HalfDay == 12 * 60

\* f"{symbol}:{alert_type}"
get_alert_key(symbol, alert_type) == symbol \o <<":">> \o alert_type

\* datetime.isoformat()
isoformat(t) == [text |-> "iso", at |-> t]

Garbage == [text |-> "not a date"]

\* datetime.fromisoformat(s): the time, or ValueError
fromisoformat(s) ==
    IF s.text = "iso" THEN [ok |-> TRUE, at |-> s.at] ELSE [ok |-> FALSE]

\* A slip: the window closed at both ends, an alert exactly
\* dedupe_window_days old still suppressed.
should_send_alert_inclusive(state, symbol, alert_type, dedupe_window_days, now) ==
    LET key == get_alert_key(symbol, alert_type)
    IN  IF Has(state, key)
        THEN LET last_sent == fromisoformat(state[key])
             IN  IF ~last_sent.ok THEN TRUE
                 ELSE ~(now - last_sent.at <= dedupe_window_days * MinutesPerDay)
        ELSE TRUE

should_send_alert(state, symbol, alert_type, dedupe_window_days, now) ==
    LET key == get_alert_key(symbol, alert_type)
    IN  IF Has(state, key)
        THEN LET last_sent == fromisoformat(state[key])
             IN  IF ~last_sent.ok THEN TRUE
                 ELSE ~(now - last_sent.at < dedupe_window_days * MinutesPerDay)
        ELSE TRUE

\* alerts_state[key] = datetime.now().isoformat()
record_alert_sent(state, symbol, alert_type, now) ==
    LET key == get_alert_key(symbol, alert_type)
    IN  [ k \in DOMAIN state \cup {key} |-> IF k = key THEN isoformat(now) ELSE state[k] ]

MaxDays == 4
MaxRecords == 2

\* Symbols, one of them with a colon in it, and alert types.
AlertSymbols == { <<"AAA">>, <<"AAA", ":", "EXIT_RISK">> }
AlertTypes == { <<"EXIT_RISK">>, <<"ENTRY_OPPORTUNITY">> }
DedupeWindows == {1, 3}

\* The state file at the start: absent, or left with a timestamp that does
\* not parse.
InitDedupe ==
    /\ df = <<>>
    /\ ret = Idle
    /\ NoRun
    /\ clock = 0
    /\ alerts_state \in { <<>>, [ k \in {get_alert_key(<<"AAA">>, <<"EXIT_RISK">>)} |-> Garbage ] }
    /\ sent = <<>>
    /\ last_run_date = NoDate
    /\ runs = <<>>
    /\ NoFiles

\* Half a day passes.
Tick ==
    /\ clock + HalfDay <= MaxDays * MinutesPerDay
    /\ clock' = clock + HalfDay
    /\ UNCHANGED <<df, ret, run_vars, file_vars, alerts_state, sent, last_run_date, runs>>

RecordAlertSent ==
    /\ Len(sent) < MaxRecords
    /\ \E symbol \in AlertSymbols, alert_type \in AlertTypes :
         /\ alerts_state' = record_alert_sent(alerts_state, symbol, alert_type, clock)
         /\ sent' = Append(sent, [symbol |-> symbol, alert_type |-> alert_type, at |-> clock])
    /\ UNCHANGED <<df, ret, run_vars, file_vars, clock, last_run_date, runs>>

ShouldSendAlert ==
    /\ \E symbol \in AlertSymbols, alert_type \in AlertTypes, dedupe_window_days \in DedupeWindows :
         ret' = [ fn |-> "should_send_alert", symbol |-> symbol, alert_type |-> alert_type,
                  dedupe_window_days |-> dedupe_window_days, now |-> clock,
                  recorded |-> Len(sent),
                  val |-> should_send_alert(alerts_state, symbol, alert_type,
                                            dedupe_window_days, clock) ]
    /\ UNCHANGED <<df, run_vars, svc_vars, file_vars>>

NextDedupe ==
    \/ Tick
    \/ RecordAlertSent
    \/ ShouldSendAlert

SpecDedupe == InitDedupe /\ [][NextDedupe]_vars

\* The times at which an alert of the pair asked about had been recorded
\* when the question was asked.
RecordedAt == { sent[i].at : i \in { j \in 1..ret.recorded : /\ sent[j].symbol = ret.symbol
                                                           /\ sent[j].alert_type = ret.alert_type } }

\* Minutes between the latest recording of the pair and the question.
Elapsed == ret.now - (CHOOSE t \in RecordedAt : \A u \in RecordedAt : u <= t)

\* C19: should_send_alert(symbol, type) is False exactly while an alert of
\* that symbol and type has been recorded and less than dedupe_window_days
\* have passed since its latest recording; with no recording of the pair,
\* whatever was recorded for other pairs and whether or not the file holds
\* a timestamp that does not parse, it is True.
C19_DedupeWindow ==
    IsCall("should_send_alert") =>
        ret.val <=> \/ RecordedAt = {}
                    \/ Elapsed >= ret.dedupe_window_days * MinutesPerDay

\* The question asked exactly dedupe_window_days after the recording, with
\* another pair recorded since: the alert is sendable again.
C19_Witness ==
    /\ IsCall("should_send_alert")
    /\ RecordedAt # {}
    /\ ret.recorded = 2
    /\ sent[2].at > sent[1].at
    /\ sent[2].symbol # ret.symbol
    /\ Elapsed = ret.dedupe_window_days * MinutesPerDay
    /\ ret.val

--------------------------------------------------------------------------
(* scheduler.py: the daemon.  The clock counts minutes from a Monday       *)
(* 00:00; a time of day "HH:MM" is kept as the pair <<HH, MM>>.            *)

\* now.weekday(): 0 = Monday, 6 = Sunday
weekday(now) == (now \div MinutesPerDay) % 7

\* now.date()
date(now) == now \div MinutesPerDay

\* datetime.strptime(scheduled_time, '%H:%M') moved to the date of `now`
scheduled_at(scheduled_time, now) ==
    date(now) * MinutesPerDay + scheduled_time[1] * 60 + scheduled_time[2]

should_run_now(schedule_config, now) ==
    LET run_days  == Get(schedule_config, "days", <<0, 1, 2, 3, 4>>)
        run_times == Get(schedule_config, "times", << <<9, 0>>, <<16, 0>> >>)
    IN  /\ weekday(now) \in Range(run_days)
        /\ \E i \in DOMAIN run_times :
               Abs(now - scheduled_at(run_times[i], now)) * 60 < 300

\* time.sleep(check_interval), in minutes: 60 seconds by default
check_interval == 1

\* The runs of send_daily_alert followed that end in an exception.
MaxRaises == 1

\* The daemon is started on a Sunday at 08:50 and watched until the
\* Monday after, 16:10.
DaemonStart == 6 * MinutesPerDay + 8 * 60 + 50
DaemonEnd == 7 * MinutesPerDay + 16 * 60 + 10

\* The "scheduler" section of config.json.
ScheduleConfigs ==
    { <<>>,
      [times |-> << <<9, 0>> >>],
      [days |-> <<0, 6>>, times |-> << <<16, 0>>, <<9, 0>> >>] }

InitDaemon ==
    /\ df = <<>>
    /\ ret = Idle
    /\ config \in { [scheduler |-> c] : c \in ScheduleConfigs }
    /\ universe = <<>>
    /\ all_data = <<>>
    /\ monitor_symbols = <<>>
    /\ pc = "poll"
    /\ todo = <<>>
    /\ market_stressed = FALSE
    /\ exit_risks = <<>>
    /\ entry_opps = <<>>
    /\ bank_opps = <<>>
    /\ all_metrics = <<>>
    /\ recommendations = <<>>
    /\ clock = DaemonStart
    /\ alerts_state = <<>>
    /\ sent = <<>>
    /\ last_run_date = NoDate
    /\ runs = <<>>
    /\ NoFiles

daemon_fixed == <<df, file_vars, ret, config, universe, all_data, monitor_symbols, todo, market_stressed, exit_risks, entry_opps, bank_opps, all_metrics, recommendations, alerts_state, sent>>

\* The runs so far that ended in an exception.
Raises == Cardinality({ i \in DOMAIN runs : runs[i].outcome = "raised" })

\* A slip: the date of the run never kept.
Poll_date_not_kept ==
    /\ pc = "poll"
    /\ IF should_run_now(Get(config, "scheduler", <<>>), clock) /\ last_run_date # date(clock)
       THEN \E outcome \in {"sent", "not_sent", "raised"} :
                /\ outcome = "raised" => Raises < MaxRaises
                /\ runs' = Append(runs, [at |-> clock, outcome |-> outcome])
                /\ last_run_date' = last_run_date
       ELSE UNCHANGED <<runs, last_run_date>>
    /\ pc' = "sleep"
    /\ UNCHANGED <<clock, daemon_fixed>>

\* The body of `while True` up to the sleep: the schedule is checked and,
\* on a first hit of the day, send_daily_alert is called; it returns True
\* (sent) or False (not_sent), or raises, and then the assignment of
\* last_run_date is skipped and the handler sleeps.
Poll ==
    /\ pc = "poll"
    /\ IF should_run_now(Get(config, "scheduler", <<>>), clock) /\ last_run_date # date(clock)
       THEN \E outcome \in {"sent", "not_sent", "raised"} :
                /\ outcome = "raised" => Raises < MaxRaises
                /\ runs' = Append(runs, [at |-> clock, outcome |-> outcome])
                /\ last_run_date' = IF outcome = "raised" THEN last_run_date ELSE date(clock)
       ELSE UNCHANGED <<runs, last_run_date>>
    /\ pc' = "sleep"
    /\ UNCHANGED <<clock, daemon_fixed>>

Sleep ==
    /\ pc = "sleep"
    /\ clock + check_interval <= DaemonEnd
    /\ clock' = clock + check_interval
    /\ pc' = "poll"
    /\ UNCHANGED <<runs, last_run_date, daemon_fixed>>

NextDaemon ==
    \/ Poll
    \/ Sleep

SpecDaemon == InitDaemon /\ [][NextDaemon]_vars

\* The scheduled times of the configuration and its run days.
ScheduledTimes == Range(Get(config.scheduler, "times", << <<9, 0>>, <<16, 0>> >>))
RunDays == Range(Get(config.scheduler, "days", <<0, 1, 2, 3, 4>>))

\* Less than 5 minutes between the instant `at` and the scheduled time.
Within5(at, scheduled_time) == Abs(at - scheduled_at(scheduled_time, at)) < 5

\* C20: once the daemon has polled, on a run day, within 5 minutes of a
\* time of the schedule, a discovery-and-alert run has been triggered
\* within 5 minutes of that time on that day.
C20_AsStated ==
    pc = "sleep" =>
        \A t \in ScheduledTimes :
            (weekday(clock) \in RunDays /\ Within5(clock, t)) =>
                \E i \in DOMAIN runs : date(runs[i].at) = date(clock) /\ Within5(runs[i].at, t)

--------------------------------------------------------------------------
(* scheduler.py: send_daily_alert.  What is outside the program is an      *)
(* input of each call: how the discovery subprocess ends and what it       *)
(* found, and whether Telegram accepts a message.                          *)

\* discover_symbols.save_recommendations: the document written to
\* recommended_symbols.json
save_recommendations(recs, now) ==
    [ generated_at    |-> isoformat(now),
      total_count     |-> Len(recs),
      by_category     |-> [ c \in { recs[i].category : i \in DOMAIN recs } |->
                              LET of_c == SelectSeq(recs, LAMBDA r : r.category = c)
                              IN  [ i \in DOMAIN of_c |-> of_c[i].symbol ] ],
      recommendations |-> recs ]

\* The discovery subprocess: it fails, or exits 0 after "Failed to fetch
\* data" without writing, or runs to the end and writes what it found.
run_discovery(outcome, recs, file, now) ==
    IF outcome = "completed"
    THEN [success |-> TRUE, file |-> save_recommendations(recs, now)]
    ELSE [success |-> outcome = "nothing_fetched", file |-> file]

NoMessage == [text |-> "None"]

\* format_telegram_message: None without a non-empty 'symbols' list, else
\* the alert with the symbols that were not in the previous notification.
format_telegram_message(recs_doc, prev_doc) ==
    LET symbols      == Get(recs_doc, "symbols", <<>>)
        prev_symbols == { Get(prev_doc, "symbols", <<>>)[i].symbol :
                            i \in DOMAIN Get(prev_doc, "symbols", <<>>) }
        current      == { symbols[i].symbol : i \in DOMAIN symbols }
    IN  IF symbols = <<>> THEN NoMessage
        ELSE [ text |-> "Investment Alert", symbols |-> current,
               new_symbols |-> current \ prev_symbols ]

\* config.get('notifications', {}).get('telegram', {}).get('enabled', False)
telegram_enabled(cfg) ==
    Get(Get(Get(cfg, "notifications", <<>>), "telegram", <<>>), "enabled", FALSE)

\* A slip: the state saved before the message is sent, whether or not
\* Telegram then accepts it.
send_daily_alert_save_first(cfg, outcome, recs, telegram_ok, file, last, sent_texts, now) ==
    IF ~telegram_enabled(cfg)
    THEN [val |-> FALSE, file |-> file, last |-> last, outbox |-> sent_texts]
    ELSE
    LET prev      == Get(last, "recommendations", <<>>)
        discovery == run_discovery(outcome, recs, file, now)
        message   == format_telegram_message(discovery.file, prev)
        saved     == [recommendations |-> discovery.file, last_sent |-> isoformat(now)]
    IN  IF ~discovery.success
        THEN [ val |-> FALSE, file |-> discovery.file, last |-> last,
               outbox |-> IF telegram_ok
                          THEN Append(sent_texts, [text |-> "Discovery failed"])
                          ELSE sent_texts ]
        ELSE IF message = NoMessage
        THEN [val |-> FALSE, file |-> discovery.file, last |-> last, outbox |-> sent_texts]
        ELSE IF ~telegram_ok
        THEN [val |-> FALSE, file |-> discovery.file, last |-> saved, outbox |-> sent_texts]
        ELSE [ val |-> TRUE, file |-> discovery.file, last |-> saved,
               outbox |-> Append(sent_texts, message) ]

\* send_daily_alert: its return value and what it leaves in
\* recommended_symbols.json, in last_notification.json and at Telegram.
send_daily_alert(cfg, outcome, recs, telegram_ok, file, last, sent_texts, now) ==
    IF ~telegram_enabled(cfg)
    THEN [val |-> FALSE, file |-> file, last |-> last, outbox |-> sent_texts]
    ELSE
    LET prev      == Get(last, "recommendations", <<>>)
        discovery == run_discovery(outcome, recs, file, now)
        message   == format_telegram_message(discovery.file, prev)
    IN  IF ~discovery.success
        THEN [ val |-> FALSE, file |-> discovery.file, last |-> last,
               outbox |-> IF telegram_ok
                          THEN Append(sent_texts, [text |-> "Discovery failed"])
                          ELSE sent_texts ]
        ELSE IF message = NoMessage \/ ~telegram_ok
        THEN [val |-> FALSE, file |-> discovery.file, last |-> last, outbox |-> sent_texts]
        ELSE [ val |-> TRUE, file |-> discovery.file,
               last |-> [recommendations |-> discovery.file, last_sent |-> isoformat(now)],
               outbox |-> Append(sent_texts, message) ]

MaxMessages == 2

\* What a discovery run may find.
Findings ==
    { <<>>,
      <<[symbol |-> "AAA", category |-> "core_trend", status |-> "watch"]>>,
      <<[symbol |-> "AAA", category |-> "core_trend", status |-> "watch"],
        [symbol |-> "JPM", category |-> "stress_opportunities", status |-> "available"]>> }

\* A recommendations document that lists its records under 'symbols'.
SymbolsDoc == [symbols |-> <<[symbol |-> "TLT", status |-> "momentum"]>>]

AlertConfigs ==
    { <<>>,
      [notifications |-> [telegram |-> [enabled |-> FALSE]]],
      [notifications |-> [telegram |-> [enabled |-> TRUE]]] }

InitAlert ==
    /\ df = <<>>
    /\ ret = Idle
    /\ config \in AlertConfigs
    /\ universe = <<>>
    /\ all_data = <<>>
    /\ monitor_symbols = <<>>
    /\ pc = "idle"
    /\ todo = <<>>
    /\ market_stressed = FALSE
    /\ exit_risks = <<>>
    /\ entry_opps = <<>>
    /\ bank_opps = <<>>
    /\ all_metrics = <<>>
    /\ recommendations = <<>>
    /\ NoService
    /\ rec_file \in {<<>>, SymbolsDoc}
    /\ last_notification \in {<<>>, [recommendations |-> SymbolsDoc, last_sent |-> isoformat(0)]}
    /\ outbox = <<>>
    /\ stocks = <<>>

SendDailyAlert ==
    /\ Len(outbox) < MaxMessages
    /\ \E outcome \in {"failed", "nothing_fetched", "completed"}, recs \in Findings, telegram_ok \in BOOLEAN :
         LET r == send_daily_alert(config, outcome, recs, telegram_ok, rec_file,
                                   last_notification, outbox, clock)
         IN  /\ ret' = [ fn |-> "send_daily_alert", outcome |-> outcome, recs |-> recs,
                         telegram_ok |-> telegram_ok, before |-> last_notification,
                         texts |-> Len(outbox), val |-> r.val ]
             /\ rec_file' = r.file
             /\ last_notification' = r.last
             /\ outbox' = r.outbox
    /\ UNCHANGED <<df, run_vars, svc_vars, stocks>>

\* A minute passes between two calls.
AlertTick ==
    /\ clock < MaxMessages
    /\ clock' = clock + 1
    /\ UNCHANGED <<df, ret, run_vars, file_vars, alerts_state, sent, last_run_date, runs>>

NextAlert ==
    \/ SendDailyAlert
    \/ AlertTick

SpecAlert == InitAlert /\ [][NextAlert]_vars

\* C21: with Telegram enabled and accepting messages, a discovery run that
\* completes and writes a non-empty list of recommendations makes
\* send_daily_alert send the alert and return True.
C21_AsStated ==
    ( /\ IsCall("send_daily_alert")
      /\ telegram_enabled(config)
      /\ ret.telegram_ok
      /\ ret.outcome = "completed"
      /\ ret.recs # <<>> )
    => /\ ret.val
       /\ Len(outbox) = ret.texts + 1

--------------------------------------------------------------------------
(* The components of the discovery score *)

\* C22: each of the four components of compute_discovery_score (above-MA,
\* slope, drawdown, relative strength) adds at least 0 and at most its
\* configured weight to the sum, whatever the input.
C22_AsStated ==
    IsCall("compute_discovery_score") =>
        LET w(key) == Get(ret.weights, key, DefaultWeight)
            Within(c, key) == RLe(Rat(0, 1), c) /\ RLe(c, w(key))
        IN  /\ Within(above_ma_score(ret.is_above_ma, ret.weights), "above_ma")
            /\ Within(slope_score(ret.slope, ret.weights), "slope")
            /\ Within(drawdown_score(ret.drawdown, ret.weights), "drawdown")
            /\ Within(rs_score(ret.relative_strength, ret.weights),
                      "relative_strength")

--------------------------------------------------------------------------
(* check_market_stress, called once on fetched data *)

\* Histories of the stress-watch symbols beside the calm and the stressed
\* ones: SPY with one row and SPY 6% under its high, VIXY risen with 9
\* rows, KRE fallen with 99 rows.
StressData ==
    { Fetched([SPY |-> sp, VIXY |-> vx, KRE |-> kr]) :
        sp \in Opt(SpyFrames \cup { <<Days(40, 0, 1)>>, <<Days(50, 0, 100), Days(47, 0, 4)>> }),
        vx \in Opt(VixyFrames \cup { <<Days(18, 0, 5), Days(40, 0, 4)>> }),
        kr \in Opt(KreFrames \cup { <<Days(40, 0, 95), Days(34, 0, 4)>> }) }

\* The opportunity rules of config.json that bear on market stress.
StressConfigs ==
    { MkConfig(<<"JPM">>, <<>>, <<>>, rules) :
        rules \in { <<>>,
                    [stress_if_vixy_trending_up |-> FALSE],
                    [stress_if_kre_below_long_ma |-> FALSE],
                    [stress_if_spy_drawdown_threshold |-> Bp(500)] } }

InitStress ==
    /\ df = <<>>
    /\ ret = Idle
    /\ config \in StressConfigs
    /\ universe = <<>>
    /\ all_data \in StressData
    /\ monitor_symbols = <<>>
    /\ pc = "idle"
    /\ todo = <<>>
    /\ market_stressed = FALSE
    /\ exit_risks = <<>>
    /\ entry_opps = <<>>
    /\ bank_opps = <<>>
    /\ all_metrics = <<>>
    /\ recommendations = <<>>
    /\ NoService
    /\ NoFiles

CallCheckMarketStress ==
    /\ ret = Idle
    /\ LET thresholds == get_stress_opportunity_thresholds(
                             get_category_rules(config, "stress_opportunities", "opportunity"))
       IN  ret' = [ fn |-> "check_market_stress", thresholds |-> thresholds,
                    val |-> check_market_stress(all_data, thresholds) ]
    /\ UNCHANGED <<df, run_vars, svc_vars, file_vars>>

NextStress == CallCheckMarketStress

SpecStress == InitStress /\ [][NextStress]_vars

\* The three signals read off the fetched data and the configured SPY
\* threshold alone.
SpyInDrawdown ==
    /\ Has(all_data, "SPY")
    /\ SLen(CloseOf("SPY")) > 0
    /\ RGe(compute_drawdown(Latest(CloseOf("SPY")), MaxRange(HighOf("SPY"),
               SLen(HighOf("SPY")) - 62, SLen(HighOf("SPY")))),
           ret.thresholds.stress_spy_drawdown_threshold)
VixyAboveMa10 ==
    /\ Has(all_data, "VIXY")
    /\ SLen(CloseOf("VIXY")) >= 10
    /\ RGt(Int2Rat(Latest(CloseOf("VIXY"))), compute_ma(CloseOf("VIXY"), 10, SLen(CloseOf("VIXY"))))
KreBelowMa100 ==
    /\ Has(all_data, "KRE")
    /\ SLen(CloseOf("KRE")) >= 100
    /\ RLt(Int2Rat(Latest(CloseOf("KRE"))), compute_ma(CloseOf("KRE"), 100, SLen(CloseOf("KRE"))))

HoldCount(a, b, c) == (IF a THEN 1 ELSE 0) + (IF b THEN 1 ELSE 0) + (IF c THEN 1 ELSE 0)

\* C23 (as stated): check_market_stress returns true exactly when at least
\* 2 of the 3 signals hold -- SPY drawdown from the 63-day high at least the
\* configured threshold, VIXY above its 10-day average, KRE below its
\* 100-day average -- a symbol without data or with too few rows not
\* counting.
C23_AsStated ==
    IsCall("check_market_stress") =>
        (ret.val <=> HoldCount(SpyInDrawdown, VixyAboveMa10, KreBelowMa100) >= 2)

\* C23 (amended): the same, counting the VIXY signal only while
\* stress_if_vixy_trending_up is on and the KRE signal only while
\* stress_if_kre_below_long_ma is on.
C23_EnabledSignals ==
    IsCall("check_market_stress") =>
        (ret.val <=> HoldCount(SpyInDrawdown,
                               ret.thresholds.stress_vixy_trending_up /\ VixyAboveMa10,
                               ret.thresholds.stress_kre_below_long_ma /\ KreBelowMa100) >= 2)

\* VIXY above its average and KRE below its own with SPY calm, the VIXY
\* signal switched off: no stress.
C23_Witness ==
    /\ IsCall("check_market_stress")
    /\ ~ret.thresholds.stress_vixy_trending_up
    /\ ~SpyInDrawdown /\ VixyAboveMa10 /\ KreBelowMa100
    /\ ~ret.val

--------------------------------------------------------------------------
(* web_ui.py: the watchlist API over stocks.json.  A string is the         *)
(* sequence of its characters; `stocks` is the list stocks.json holds.     *)

\* The code point of a character.
ord(ch) == CASE ch = " " -> 32 [] ch = "A" -> 65 [] ch = "B" -> 66
             [] ch = "a" -> 97 [] ch = "b" -> 98

\* str.upper()
upper(s) ==
    [ i \in DOMAIN s |-> CASE s[i] = "a" -> "A" [] s[i] = "b" -> "B" [] OTHER -> s[i] ]

\* str.strip()
RECURSIVE lstrip(_)
lstrip(s) == IF s # <<>> /\ Head(s) = " " THEN lstrip(Tail(s)) ELSE s

RECURSIVE rstrip(_)
rstrip(s) == IF s # <<>> /\ s[Len(s)] = " " THEN rstrip(SubSeq(s, 1, Len(s) - 1)) ELSE s

strip(s) == rstrip(lstrip(s))

\* str < str: the order list.sort() puts strings in.
RECURSIVE str_lt(_, _)
str_lt(s, t) ==
    IF t = <<>> THEN FALSE
    ELSE IF s = <<>> THEN TRUE
    ELSE IF ord(Head(s)) # ord(Head(t)) THEN ord(Head(s)) < ord(Head(t))
    ELSE str_lt(Tail(s), Tail(t))

\* list.sort()
RECURSIVE sort(_)
sort(list) ==
    IF list = <<>> THEN <<>>
    ELSE LET x    == Head(list)
             rest == sort(Tail(list))
             lo   == SelectSeq(rest, LAMBDA y : str_lt(y, x))
             hi   == SelectSeq(rest, LAMBDA y : ~str_lt(y, x))
         IN  lo \o <<x>> \o hi

\* list.remove(x): the first occurrence.
RECURSIVE remove(_, _)
remove(list, x) ==
    IF list = <<>> THEN <<>>
    ELSE IF Head(list) = x THEN Tail(list)
    ELSE <<Head(list)>> \o remove(Tail(list), x)

\* load_json(STOCKS_FILE) or []
get_stocks(file) == file

\* A slip: the symbol appended without the `in stocks` check.
api_add_stock_unchecked(data, file) ==
    LET symbol == strip(upper(Get(data, "symbol", <<>>)))
    IN  IF symbol = <<>> THEN [status |-> 400, file |-> file]
        ELSE [status |-> 200, file |-> sort(Append(get_stocks(file), symbol))]

\* A slip: the symbol appended and the list saved unsorted.
api_add_stock_unsorted(data, file) ==
    LET symbol == strip(upper(Get(data, "symbol", <<>>)))
    IN  IF symbol = <<>> THEN [status |-> 400, file |-> file]
        ELSE IF symbol \in Range(get_stocks(file)) THEN [status |-> 400, file |-> file]
        ELSE [status |-> 200, file |-> Append(get_stocks(file), symbol)]

\* POST /api/stocks: the answer's status and stocks.json afterwards.
api_add_stock(data, file) ==
    LET symbol == strip(upper(Get(data, "symbol", <<>>)))
    IN  IF symbol = <<>> THEN [status |-> 400, file |-> file]
        ELSE IF symbol \in Range(get_stocks(file)) THEN [status |-> 400, file |-> file]
        ELSE [status |-> 200, file |-> sort(Append(get_stocks(file), symbol))]

\* DELETE /api/stocks/<symbol>
api_delete_stock(path_symbol, file) ==
    LET symbol == upper(path_symbol)
    IN  IF symbol \notin Range(get_stocks(file)) THEN [status |-> 404, file |-> file]
        ELSE [status |-> 200, file |-> remove(get_stocks(file), symbol)]

Chars == { " ", "A", "a", "b" }

\* The strings a request may carry: at most two characters.
RawSymbols == {<<>>} \cup { <<x>> : x \in Chars } \cup { <<x, y>> : x \in Chars, y \in Chars }

\* Watchlists as the UI saves them.
Watchlists ==
    { <<>>, << <<"A">> >>, << <<"A">>, <<"B">> >>, << <<"A", "B">>, <<"B">> >> }

InitWatchlist ==
    /\ df = <<>>
    /\ ret = Idle
    /\ NoRun
    /\ NoService
    /\ rec_file = <<>>
    /\ last_notification = <<>>
    /\ outbox = <<>>
    /\ stocks \in Watchlists

\* The last successful request of each symbol so far, kept with the answer.
LastSuccessful == Get(ret, "last", <<>>)

Remember(symbol, request) ==
    [ s \in DOMAIN LastSuccessful \cup {symbol} |->
        IF s = symbol THEN request ELSE LastSuccessful[s] ]

PostStock ==
    /\ \E data \in {<<>>} \cup { [symbol |-> raw] : raw \in RawSymbols } :
         LET r      == api_add_stock(data, stocks)
             symbol == strip(upper(Get(data, "symbol", <<>>)))
         IN  /\ stocks' = r.file
             /\ ret' = [ fn |-> "api_add_stock", symbol |-> symbol, status |-> r.status,
                         before |-> stocks,
                         last |-> IF r.status = 200 THEN Remember(symbol, "add")
                                  ELSE LastSuccessful ]
    /\ UNCHANGED <<df, run_vars, svc_vars, rec_file, last_notification, outbox>>

DeleteStock ==
    /\ \E raw \in RawSymbols \ {<<>>} :
         LET r == api_delete_stock(raw, stocks)
         IN  /\ stocks' = r.file
             /\ ret' = [ fn |-> "api_delete_stock", symbol |-> upper(raw), status |-> r.status,
                         before |-> stocks,
                         last |-> IF r.status = 200 THEN Remember(upper(raw), "delete")
                                  ELSE LastSuccessful ]
    /\ UNCHANGED <<df, run_vars, svc_vars, rec_file, last_notification, outbox>>

NextWatchlist == PostStock \/ DeleteStock

SpecWatchlist == InitWatchlist /\ [][NextWatchlist]_vars

\* C24: POST /api/stocks with an empty symbol, or with one that is in the
\* list once upper-cased and trimmed, answers 400; DELETE of a symbol not
\* in the list answers 404; each leaves stocks.json as it was.
C24_RejectedUnchanged ==
    /\ (IsCall("api_add_stock") /\ (ret.symbol = <<>> \/ ret.symbol \in Range(ret.before)))
           => (ret.status = 400 /\ stocks = ret.before)
    /\ (IsCall("api_delete_stock") /\ ret.symbol \notin Range(ret.before))
           => (ret.status = 404 /\ stocks = ret.before)

\* A POST whose symbol, upper-cased and trimmed, is the AB the list holds:
\* 400, and the list as before.
C24_Witness ==
    /\ IsCall("api_add_stock")
    /\ ret.symbol = <<"A", "B">>
    /\ ret.status = 400
    /\ stocks = << <<"A", "B">>, <<"B">> >>
    /\ stocks = ret.before

--------------------------------------------------------------------------
(* The overview label and the exit check of one symbol in one run *)

\* Exit rules within the defaults for the moving averages, and some
\* outside them.
LabelExitRules ==
    { <<>>,
      [drawdown_exit_threshold |-> Bp(500)],
      [drawdown_lookback_days |-> 1],
      [price_below_long_ma_days |-> 0],
      [use_ma_crossover |-> FALSE],
      [enabled |-> FALSE],
      [short_ma |-> 10] }

\* A history whose 50-day and 100-day averages are both 36 under a Close
\* of 42.
LabelFrames == { <<Days(36, 0, 50), Days(30, 0, 25), Days(42, 0, 25)>> }

InitLabel ==
    /\ df \in Frames \cup LabelFrames
    /\ ret = Idle
    /\ NoRun
    /\ NoService
    /\ NoFiles

\* The loop body of analyze_monitored_symbols for a symbol outside the
\* stress category with at least 100 rows: the metrics, then the exit check,
\* on the same series and the same exit thresholds.
AnalyzeNonStress ==
    /\ ret = Idle
    /\ DfLen(df) >= 100
    /\ \E xr \in LabelExitRules :
         LET exit_thresholds  == get_exit_thresholds(xr)
             entry_thresholds == get_entry_thresholds(<<>>)
         IN  ret' = [ fn |-> "analyze_monitored_symbols",
                      exit_thresholds |-> exit_thresholds,
                      metrics |-> get_symbol_metrics("AAA", get_close_series(df),
                                      get_high_series(df), exit_thresholds,
                                      entry_thresholds, 1),
                      exit_alert |-> check_exit_risk("AAA", get_close_series(df),
                                         get_high_series(df), exit_thresholds) ]
    /\ UNCHANGED <<df, run_vars, svc_vars, file_vars>>

NextLabel == AnalyzeNonStress

SpecLabel == InitLabel /\ [][NextLabel]_vars

LabelledExitRisk ==
    /\ IsCall("analyze_monitored_symbols")
    /\ ret.metrics.type = "METRICS"
    /\ ret.metrics.status = "EXIT RISK"

DefaultExitAverages ==
    /\ ret.exit_thresholds.enabled
    /\ ret.exit_thresholds.use_ma_crossover
    /\ ret.exit_thresholds.short_ma = 50
    /\ ret.exit_thresholds.long_ma = 100
    /\ ret.exit_thresholds.drawdown_lookback_days >= 1

\* C25: with the exit rule enabled, use_ma_crossover on, short_ma 50,
\* long_ma 100 and a drawdown lookback of at least one day, a symbol that
\* get_symbol_metrics labels EXIT RISK gets an EXIT_RISK alert from
\* check_exit_risk in the same run.
C25_LabelImpliesAlert ==
    (LabelledExitRisk /\ DefaultExitAverages) => ret.exit_alert.type = "EXIT_RISK"

\* A flat history exactly 10% under the day's High: labelled by the
\* drawdown from the 1-day High, alerted by the drawdown from the 63-day
\* High.
C25_Witness ==
    /\ LabelledExitRisk /\ DefaultExitAverages
    /\ ret.metrics.status_reason = "Drawdown"
    /\ REq(ret.metrics.drawdown_pct, Rat(10, 1))
    /\ ret.exit_alert.type = "EXIT_RISK"
    /\ ret.exit_alert.reason = "Drawdown"

LabelReported == IsCall("analyze_monitored_symbols") /\ ret.metrics.type = "METRICS"

\* C26: get_symbol_metrics gives WATCH only to a price above the 100-day
\* average whose 50-day average equals the 100-day one; a symbol whose two
\* averages differ is labelled EXIT RISK, ENTRY OPP, HEALTHY or WAIT.
C26_WatchNeedsEqualAverages ==
    LabelReported =>
        /\ ret.metrics.status = "WATCH" =>
               /\ RGt(Int2Rat(ret.metrics.price), ret.metrics.dma_100)
               /\ REq(ret.metrics.dma_50, ret.metrics.dma_100)
        /\ ~REq(ret.metrics.dma_50, ret.metrics.dma_100) =>
               ret.metrics.status \in {"EXIT RISK", "ENTRY OPP", "HEALTHY", "WAIT"}

\* The history with both averages at 36 and the Close at 42: WATCH.
C26_Witness ==
    /\ LabelReported
    /\ ret.metrics.status = "WATCH"
    /\ ret.metrics.price = 42
    /\ REq(ret.metrics.dma_50, Rat(36, 1))
    /\ REq(ret.metrics.dma_100, Rat(36, 1))

--------------------------------------------------------------------------
(* run_daemon: one run a day *)

--------------------------------------------------------------------------
(* lib/alerts.py: cleanup_old_alerts over the state file of the alerts *)

\* The records kept: those whose timestamp parses and is after the cutoff.
cleanup_old_alerts(state, max_age_days, now) ==
    LET cutoff == now - max_age_days * MinutesPerDay
        kept   == { key \in DOMAIN state :
                      /\ fromisoformat(state[key]).ok
                      /\ fromisoformat(state[key]).at > cutoff }
    IN  [ key \in kept |-> state[key] ]

\* max_age_days: 30 by default, and shorter ones.
MaxAges == {1, 3, 30}

\* cleanup_old_alerts as main calls it; the file is rewritten only when a
\* record was dropped.
CleanupOldAlerts ==
    /\ \E max_age_days \in MaxAges :
         LET cleaned == cleanup_old_alerts(alerts_state, max_age_days, clock)
         IN  /\ alerts_state' = IF Cardinality(DOMAIN cleaned) < Cardinality(DOMAIN alerts_state)
                                THEN cleaned ELSE alerts_state
             /\ ret' = [ fn |-> "cleanup_old_alerts", max_age_days |-> max_age_days,
                         now |-> clock, before |-> alerts_state ]
    /\ UNCHANGED <<df, run_vars, file_vars, clock, sent, last_run_date, runs>>

NextCleanup ==
    \/ Tick
    \/ RecordAlertSent
    \/ CleanupOldAlerts

SpecCleanup == InitDedupe /\ [][NextCleanup]_vars

\* The cleanup has just run: the file is as it left it.
JustCleaned ==
    /\ IsCall("cleanup_old_alerts")
    /\ clock = ret.now
    /\ alerts_state = IF Cardinality(DOMAIN cleanup_old_alerts(ret.before, ret.max_age_days, ret.now))
                           < Cardinality(DOMAIN ret.before)
                      THEN cleanup_old_alerts(ret.before, ret.max_age_days, ret.now)
                      ELSE ret.before

\* Every alert that was suppressed before the cleanup, under a window no
\* longer than max_age_days, is suppressed after it.
StillSuppressed ==
    \A symbol \in AlertSymbols, alert_type \in AlertTypes, w \in DedupeWindows :
        (w <= ret.max_age_days /\ ~should_send_alert(ret.before, symbol, alert_type, w, ret.now))
            => ~should_send_alert(alerts_state, symbol, alert_type, w, ret.now)

\* A record is older than max_age_days.
OlderThanMaxAge(record) ==
    /\ fromisoformat(record).ok
    /\ ret.now - fromisoformat(record).at > ret.max_age_days * MinutesPerDay

\* C28: cleanup_old_alerts re-enables no suppressed alert when max_age_days
\* is at least the dedupe window, and it removes only records older than
\* max_age_days or with a timestamp that does not parse, every other record
\* staying as it was.
C28_AsStated ==
    JustCleaned =>
        /\ StillSuppressed
        /\ \A key \in DOMAIN ret.before :
               IF ~fromisoformat(ret.before[key]).ok \/ OlderThanMaxAge(ret.before[key])
               THEN TRUE
               ELSE Has(alerts_state, key) /\ alerts_state[key] = ret.before[key]
        /\ DOMAIN alerts_state \subseteq DOMAIN ret.before

--------------------------------------------------------------------------
(* send_daily_alert and last_notification.json *)

\* The recommendations file, as the call left it, lists nothing to send.
NothingToSend == Get(rec_file, "symbols", <<>>) = <<>>

\* C30: send_daily_alert writes last_notification.json only after its
\* message was sent: with notifications disabled, a failed discovery,
\* nothing to send or a failed send it returns False and the stored state
\* is exactly what it was.
C30_StateOnlyAfterSend ==
    IsCall("send_daily_alert") =>
        /\ ( \/ ~telegram_enabled(config)
             \/ ret.outcome = "failed"
             \/ NothingToSend
             \/ ~ret.telegram_ok ) => ~ret.val
        /\ ~ret.val => last_notification = ret.before
        /\ last_notification # ret.before => Len(outbox) = ret.texts + 1

\* A message was ready and a previous state stored, Telegram refused the
\* message: False, and the stored state untouched.
C30_Witness ==
    /\ IsCall("send_daily_alert")
    /\ telegram_enabled(config)
    /\ ret.outcome # "failed"
    /\ ~NothingToSend
    /\ ~ret.telegram_ok
    /\ ret.before # <<>>
    /\ ~ret.val
    /\ last_notification = ret.before

==========================================================================
